---- MODULE Spec2Model ----
(***************************************************************************)
(* Model of the zero-copy shared-memory bridge of ane-bridge               *)
(* (src/ane-bridge/shared_memory_bridge.py): ImageSegmentManager,          *)
(* SynchronizationManager and SharedMemoryBridge.process_image_zero_copy.  *)
(*                                                                         *)
(* Concurrency: several calls of process_image_zero_copy are in progress   *)
(* at once (one per task).  A call is a coroutine: it can be descheduled    *)
(* where it awaits (allocate_segment, _read_processing_result,             *)
(* _fallback_to_http, deallocate_segment) and where it blocks in the       *)
(* completion wait.  Each of these operations is one step, and the code    *)
(* that follows it up to the next one runs with it or as one step of its   *)
(* own.                                                                    *)
(*                                                                         *)
(* The module also holds the other components of the adaptive layer, each  *)
(* with a specification of its own that drives its public operations:      *)
(* SynchronizationManager alone (SpecSync), M4SharedMemoryBridge of        *)
(* src/docker/apple-silicon-m4/shared-memory-bridge.py (SpecM4) and        *)
(* DynamicBatchOptimizer of src/ane-bridge/batch_optimizer.py (SpecBatch). *)
(* A specification leaves the variables of the other components as their  *)
(* constructors set them.                                                  *)
(***************************************************************************)
EXTENDS Naturals, Integers, Sequences, FiniteSets, TLC

\* ---------------------------------------------------------------- bounds
NumTasks == 2          \* concurrent callers of process_image_zero_copy
NumIds == 2            \* distinct request ids the callers supply
MaxCalls == 2          \* calls started in one behaviour
MaxSegments == 1       \* config "max_segments"
MaxConcurrent == 1     \* config "max_concurrent"

\* ------------------------------------------------------- program constants
StaleAfter == 300      \* seconds; _cleanup_expired_segments

Tasks == 1..NumTasks
Ids == 1..NumIds
\* Wall-clock seconds the model visits (time.time()), on both sides of the
\* staleness window.
TimePoints == {0, StaleAfter, StaleAfter + 1}

None == "None"
ErrExhausted == "Maximum shared memory segments exceeded"
ErrAllocFailed == "Shared memory allocation failed"
ErrWrite == "NoneType object does not support item assignment"
ErrTimeout == "Processing timeout"
TextShm == "Shared memory OCR processing completed successfully"
TextHttp == "HTTP fallback OCR processing"

VARIABLES
    now,                    \* time.time(), whole seconds
    http_fallback_enabled,  \* SharedMemoryBridge.http_fallback_enabled
    request_semaphore,      \* SynchronizationManager.request_semaphore (free slots)
    active_events,          \* SynchronizationManager.active_events: id -> event flag
    event_locks,            \* SynchronizationManager.event_locks (its keys)
    active_segments,        \* ImageSegmentManager.active_segments: id -> segment
    shared_memory_objects,  \* ImageSegmentManager.shared_memory_objects: id -> handle
    shm_os,                 \* names of the shared memory objects the OS holds
    active_requests,        \* SharedMemoryBridge.active_requests: id -> request
    metrics,                \* SharedMemoryBridge.metrics
    pc,                     \* per task: position in process_image_zero_copy
    rid,                    \* per task: request_id
    shm,                    \* per task: local shm handle (name, has a buffer)
    completed,              \* per task: local `completed`
    exc,                    \* per task: exception on its way to `except`
    result                  \* per task: value the call returns

bridgeVars == <<now, http_fallback_enabled, request_semaphore, active_events,
                event_locks, active_segments, shared_memory_objects, shm_os,
                active_requests, metrics, pc, rid, shm, completed, exc,
                result>>

VARIABLES
    segments,               \* M4SharedMemoryBridge.segments: name -> mapped file
    m4_call,                \* last call on the M4 bridge: arguments and return
    m4_threads,             \* per thread: position in its call and its locals
    m4_written              \* the (image_data, metadata) pairs passed to writes

m4Vars == <<segments, m4_call, m4_threads, m4_written>>

VARIABLES
    adaptive_sizing,        \* DynamicBatchOptimizer.adaptive_sizing
    current_config,         \* DynamicBatchOptimizer.current_config
    adaptation_history,     \* DynamicBatchOptimizer.adaptation_history
    performance_history,    \* DynamicBatchOptimizer.performance_history
    opt_call                \* last call on the optimizer: arguments and return

batchVars == <<adaptive_sizing, current_config, adaptation_history,
               performance_history, opt_call>>

VARIABLES
    adaptive_throttling,    \* ANEResourceMonitor.adaptive_throttling
    current_allocation,     \* ANEResourceMonitor.current_allocation
    utilization_history,    \* ANEResourceMonitor.utilization_history
    mon_call                \* last call on the monitor: reading and return

monitorVars == <<adaptive_throttling, current_allocation, utilization_history,
                 mon_call>>

VARIABLES
    is_initialized,         \* CachePredictionModel.is_initialized
    prediction_threshold,   \* CachePredictionModel.prediction_threshold
    prediction_history,     \* CachePredictionModel.prediction_history
    pred_call               \* last call on the predictor: arguments and return

predictorVars == <<is_initialized, prediction_threshold, prediction_history,
                   pred_call>>

VARIABLES
    shared_memory_enabled,  \* SharedMemoryClient.shared_memory_enabled
    client_metrics,         \* SharedMemoryClient.metrics
    client_call,            \* last process_ocr call: arguments, attempts, response
    client_tasks,           \* per caller: position in process_ocr and its locals
    client_segments         \* SharedMemoryClient.active_segments: id -> creator

clientVars == <<shared_memory_enabled, client_metrics, client_call,
                client_tasks, client_segments>>

VARIABLES
    size_call,              \* last calculate_segment_size call: arguments and return
    write_call              \* last payload written to a new segment: sizes

sizeVars == <<size_call, write_call>>

VARIABLES
    adaptive_sizing_enabled,  \* VisionProcessor.adaptive_sizing_enabled
    has_batch_optimizer,      \* VisionProcessor.batch_optimizer is not None
    batch_call                \* last process_batch_async call: arguments and return

processorVars == <<adaptive_sizing_enabled, has_batch_optimizer, batch_call>>

VARIABLES
    processor_metrics,        \* VisionProcessor.metrics
    result_cache,             \* VisionProcessor.result_cache, in insertion order
    ocr_results,              \* the OCRResult objects created, by identity
    ocr_call                  \* last VisionProcessor.process_ocr call

ocrVars == <<processor_metrics, result_cache, ocr_results, ocr_call>>

VARIABLES
    monitoring_active,        \* ANEResourceMonitor.monitoring_active
    monitor_loop,             \* position of _resource_optimization_loop
    processor_loops,          \* position of each background task of the processor
    shut_down                 \* the owners whose shutdown or cleanup has run

loopVars == <<monitoring_active, monitor_loop, processor_loops, shut_down>>

vars ==
    <<bridgeVars, m4Vars, batchVars, monitorVars, predictorVars, clientVars,
      sizeVars, processorVars, ocrVars, loopVars>>

\* what the steps of one component leave alone
outsideBridge ==
    <<m4Vars, batchVars, monitorVars, predictorVars, clientVars, sizeVars,
      processorVars, ocrVars, loopVars>>
outsideM4 ==
    <<bridgeVars, batchVars, monitorVars, predictorVars, clientVars,
      sizeVars, processorVars, ocrVars, loopVars>>
outsideBatch ==
    <<bridgeVars, m4Vars, monitorVars, predictorVars, clientVars, sizeVars,
      processorVars, ocrVars, loopVars>>
outsideMonitor ==
    <<bridgeVars, m4Vars, batchVars, predictorVars, clientVars, sizeVars,
      processorVars, ocrVars, loopVars>>
outsidePredictor ==
    <<bridgeVars, m4Vars, batchVars, monitorVars, clientVars, sizeVars,
      processorVars, ocrVars, loopVars>>
outsideClient ==
    <<bridgeVars, m4Vars, batchVars, monitorVars, predictorVars, sizeVars,
      processorVars, ocrVars, loopVars>>
outsideSize ==
    <<bridgeVars, m4Vars, batchVars, monitorVars, predictorVars, clientVars,
      processorVars, ocrVars, loopVars>>
outsideOcr ==
    <<bridgeVars, m4Vars, batchVars, monitorVars, predictorVars, clientVars,
      sizeVars, processorVars, loopVars>>
\* the processor calls its optimizer
outsideProcessor ==
    <<bridgeVars, m4Vars, monitorVars, predictorVars, clientVars, sizeVars,
      ocrVars, loopVars>>
\* VisionProcessor.cleanup clears the result cache
outsideLoops ==
    <<bridgeVars, m4Vars, batchVars, monitorVars, predictorVars, clientVars,
      sizeVars, processorVars>>

syncVars == <<request_semaphore, active_events, event_locks>>
segVars == <<active_segments, shared_memory_objects, shm_os>>
localVars == <<rid, shm, completed, exc, result>>

\* ----------------------------------------------------------------- helpers
\* dict without key k
Del(f, k) == [x \in DOMAIN f \ {k} |-> f[x]]
\* dict with f[k] = v
Put(f, k, v) == [x \in DOMAIN f \cup {k} |-> IF x = k THEN v ELSE f[x]]
\* dict restricted to the keys in S
Restrict(f, S) == [x \in DOMAIN f \cap S |-> f[x]]

\* BridgeMetrics()
BridgeMetrics ==
    [total_requests |-> 0, successful_requests |-> 0, failed_requests |-> 0,
     zero_copy_transfers |-> 0, fallback_http_requests |-> 0,
     latency_updates |-> 0]

\* _update_metrics: one fold of the latency sample into average_latency_ms
\* (the number of folds is kept, not the float).
UpdateMetrics(m) == [m EXCEPT !.latency_updates = @ + 1]

\* ProcessingResult of _read_processing_result
ShmResult(r) ==
    [request_id |-> r, text |-> TextShm, ane_used |-> TRUE, error |-> None,
     cache_hit |-> FALSE]

\* ProcessingResult of _fallback_to_http
HttpResult(r) ==
    [request_id |-> r, text |-> TextHttp, ane_used |-> TRUE, error |-> None,
     cache_hit |-> FALSE]

\* mutant: the error result drops the exception's message
ErrorResult_NoMessage(r, e) ==
    [request_id |-> r, text |-> "", ane_used |-> FALSE, error |-> None,
     cache_hit |-> FALSE]

\* ProcessingResult built in the except branch when fallback is disabled
ErrorResult(r, e) ==
    [request_id |-> r, text |-> "", ane_used |-> FALSE, error |-> e,
     cache_hit |-> FALSE]

\* f"ane_bridge_{request_id}_{int(time.time())}"
SegmentName(r, t) == <<r, t>>

\* mutant: a segment exactly 300 s old already counts as expired
IsExpired_AtWindow(seg, t) == t - seg.created_at >= StaleAfter

\* the `> 300` test of _cleanup_expired_segments
IsExpired(seg, t) == t - seg.created_at > StaleAfter

\* ids collected into expired_requests by _cleanup_expired_segments
ExpiredRequests(segs, t) == {k \in DOMAIN segs : IsExpired(segs[k], t)}

\* mutant: the capacity test lets one segment too many in
AtCapacity_OffByOne(segs) == Cardinality(DOMAIN segs) > MaxSegments

\* the capacity test of allocate_segment (both occurrences)
AtCapacity(segs) == Cardinality(DOMAIN segs) >= MaxSegments

\* a task's locals before the call: no request id, no handle, no result
NoId == 0
NoHandle == [name |-> <<0, 0>>, open |-> FALSE]
NoResult ==
    [request_id |-> 0, text |-> None, ane_used |-> FALSE, error |-> None,
     cache_hit |-> FALSE]

\* _cleanup_expired_segments: deallocate_segment on every expired id; `gone`
\* are the ids whose shared memory object the OS let go (close and unlink
\* did not raise), the others stay in both maps.
SweepOutcomes(segs, objs, os, t) ==
    { [segs |-> Restrict(segs, DOMAIN segs \ gone),
       objs |-> Restrict(objs, DOMAIN objs \ gone),
       os |-> os \ {objs[k].name : k \in gone},
       closed |-> {objs[k] : k \in gone}] :
      gone \in SUBSET ExpiredRequests(segs, t) }

\* allocate_segment after the capacity test: raise, or create and store
CreateSegment(s, r, t, p) ==
    IF AtCapacity(s.segs)
    THEN [ok |-> FALSE, err |-> ErrExhausted, segs |-> s.segs,
          objs |-> s.objs, os |-> s.os, closed |-> s.closed]
    ELSE IF SegmentName(r, t) \in s.os
    THEN \* SharedMemory(create=True, name=...) raises FileExistsError
         [ok |-> FALSE, err |-> ErrAllocFailed, segs |-> s.segs,
          objs |-> s.objs, os |-> s.os, closed |-> s.closed]
    ELSE [ok |-> TRUE, err |-> None,
          segs |-> Put(s.segs, r, [name |-> SegmentName(r, t),
                                   request_id |-> r, created_at |-> t,
                                   status |-> "allocated"]),
          objs |-> Put(s.objs, r, [name |-> SegmentName(r, t), owner |-> p]),
          os |-> s.os \cup {SegmentName(r, t)}, closed |-> s.closed]

\* allocate_segment(request_id = r) called by task p at time t
AllocateSegment(segs, objs, os, r, t, p) ==
    LET swept == IF AtCapacity(segs)
                 THEN SweepOutcomes(segs, objs, os, t)
                 ELSE {[segs |-> segs, objs |-> objs, os |-> os, closed |-> {}]}
    IN {CreateSegment(s, r, t, p) : s \in swept}

\* mutant: a failed destroy still drops the segment from active_segments
DeallocateSegment_Forgets(segs, objs, os, r, ok) ==
    IF r \in DOMAIN objs /\ ok
    THEN [segs |-> Del(segs, r), objs |-> Del(objs, r),
          os |-> os \ {objs[r].name}, closed |-> {objs[r]}]
    ELSE [segs |-> Del(segs, r), objs |-> objs, os |-> os, closed |-> {}]

\* deallocate_segment(r); ok = close() and unlink() did not raise
DeallocateSegment(segs, objs, os, r, ok) ==
    IF r \in DOMAIN objs
    THEN IF ok
         THEN [segs |-> Del(segs, r), objs |-> Del(objs, r),
               os |-> os \ {objs[r].name}, closed |-> {objs[r]}]
         ELSE [segs |-> segs, objs |-> objs, os |-> os, closed |-> {}]
    ELSE [segs |-> Del(segs, r), objs |-> objs, os |-> os, closed |-> {}]

\* get_metrics()["memory_segments"]["active"]
MemorySegmentsActive == Cardinality(DOMAIN active_segments)

\* shm.close() on the handle objects in `closed`: their owners' local handle
\* has no buffer any more
CloseHandles(h, closed) ==
    [q \in Tasks |->
        IF \E o \in closed : o.owner = q /\ o.name = h[q].name
        THEN [h[q] EXCEPT !.open = FALSE] ELSE h[q]]

\* create_request_event
CreateRequestEvent(events, r) == Put(events, r, FALSE)

\* signal_processing_ready
SignalProcessingReady(events, r) ==
    IF r \in DOMAIN events THEN [events EXCEPT ![r] = TRUE] ELSE events

\* mutant: a request id without an event counts as completed
WaitForCompletion_NoEvent(events, r) == r \notin DOMAIN events \/ events[r]

\* wait_for_completion: the event's flag, False when the id has no event
WaitForCompletion(events, r) == r \in DOMAIN events /\ events[r]

\* mutant: the events of every request are dropped
SyncCleanupRequest_All(events, r) == <<>>

\* SynchronizationManager.cleanup_request(r), on the events
SyncCleanupRequest(events, r) == Del(events, r)

Init ==
    /\ now = 0
    /\ http_fallback_enabled \in BOOLEAN
    /\ request_semaphore = MaxConcurrent
    /\ active_events = <<>>
    /\ event_locks = {}
    /\ active_segments = <<>>
    /\ shared_memory_objects = <<>>
    /\ shm_os = {}
    /\ active_requests = <<>>
    /\ metrics = BridgeMetrics
    /\ pc = [p \in Tasks |-> "idle"]
    /\ rid = [p \in Tasks |-> NoId]
    /\ shm = [p \in Tasks |-> NoHandle]
    /\ completed = [p \in Tasks |-> None]
    /\ exc = [p \in Tasks |-> None]
    /\ result = [p \in Tasks |-> NoResult]

\* time passes
Tick ==
    /\ \E t \in TimePoints : t > now /\ now' = t
    /\ UNCHANGED <<http_fallback_enabled, syncVars, segVars, active_requests,
                   metrics, pc, localVars>>
    /\ UNCHANGED outsideBridge

\* lines 339-350: request id, total_requests += 1
Start(p) ==
    /\ pc[p] = "idle"
    /\ metrics.total_requests < MaxCalls
    /\ \E r \in Ids : rid' = [rid EXCEPT ![p] = r]
    /\ metrics' = [metrics EXCEPT !.total_requests = @ + 1]
    /\ pc' = [pc EXCEPT ![p] = "allocate"]
    /\ UNCHANGED <<now, http_fallback_enabled, syncVars, segVars,
                   active_requests, shm, completed, exc, result>>
    /\ UNCHANGED outsideBridge

\* line 353: await allocate_segment
Allocate(p) ==
    /\ pc[p] = "allocate"
    /\ \E o \in AllocateSegment(active_segments, shared_memory_objects,
                                 shm_os, rid[p], now, p) :
          /\ active_segments' = o.segs
          /\ shared_memory_objects' = o.objs
          /\ shm_os' = o.os
          /\ IF o.ok
             THEN /\ shm' = [CloseHandles(shm, o.closed) EXCEPT
                              ![p] = [name |-> SegmentName(rid[p], now),
                                      open |-> TRUE]]
                  /\ exc' = exc
                  /\ pc' = [pc EXCEPT ![p] = "write"]
             ELSE /\ shm' = CloseHandles(shm, o.closed)
                  /\ exc' = [exc EXCEPT ![p] = o.err]
                  /\ pc' = [pc EXCEPT ![p] = "except"]
    /\ UNCHANGED <<now, http_fallback_enabled, syncVars, active_requests,
                   metrics, rid, completed, result>>
    /\ UNCHANGED outsideBridge

\* lines 358-382: copy the payload into shm.buf (TypeError when the handle
\* was closed and has no buffer), record the request, create its event and
\* signal that the data is ready.  The buffer is not touched after line 362:
\* the model forgets whether it is still mapped.
WriteAndSignal(p) ==
    /\ pc[p] = "write"
    /\ IF shm[p].open
       THEN /\ active_requests' =
                  Put(active_requests, rid[p],
                      [request_id |-> rid[p], segment_name |-> shm[p].name])
            /\ active_events' =
                  SignalProcessingReady(
                      CreateRequestEvent(active_events, rid[p]), rid[p])
            /\ event_locks' = event_locks \cup {rid[p]}
            /\ pc' = [pc EXCEPT ![p] = "wait"]
            /\ exc' = exc
       ELSE /\ exc' = [exc EXCEPT ![p] = ErrWrite]
            /\ pc' = [pc EXCEPT ![p] = "except"]
            /\ UNCHANGED <<active_requests, active_events, event_locks>>
    /\ shm' = [shm EXCEPT ![p].open = FALSE]
    /\ UNCHANGED <<now, http_fallback_enabled, request_semaphore, segVars,
                   metrics, rid, completed, result>>
    /\ UNCHANGED outsideBridge

\* mutant: the result is read whatever the wait returned
AfterWait_NoCheck(done, fallback) == "read"

\* where the call goes once wait_for_completion returned `done`
\* (lines 387-402)
AfterWait(done, fallback) ==
    IF done THEN "read" ELSE IF fallback THEN "fallback" ELSE "except"

\* lines 385-399: wait_for_completion and the branch on `completed`
Wait(p) ==
    /\ pc[p] = "wait"
    /\ LET done == WaitForCompletion(active_events, rid[p])
           next == AfterWait(done, http_fallback_enabled)
       IN /\ completed' = [completed EXCEPT ![p] =
                              IF done THEN "True" ELSE "False"]
          /\ pc' = [pc EXCEPT ![p] = next]
          /\ exc' = [exc EXCEPT ![p] =
                        IF next = "except" THEN ErrTimeout ELSE @]
    /\ UNCHANGED <<now, http_fallback_enabled, syncVars, segVars,
                   active_requests, metrics, rid, shm, result>>
    /\ UNCHANGED outsideBridge

\* lines 407-409: the counters of a completed zero-copy transfer
CountSuccess(m) ==
    UpdateMetrics([m EXCEPT !.successful_requests = @ + 1,
                            !.zero_copy_transfers = @ + 1])

\* lines 420-421: the counters of a failed request
CountFailure(m) == UpdateMetrics([m EXCEPT !.failed_requests = @ + 1])

\* finally, lines 555-559 of _cleanup_request: del active_requests[r] and
\* sync_manager.cleanup_request(r); they run with the `return` that enters
\* the finally clause, up to the await of deallocate_segment
CleanupRequest(p) ==
    /\ active_requests' = Del(active_requests, rid[p])
    /\ active_events' = SyncCleanupRequest(active_events, rid[p])
    /\ event_locks' = event_locks \ {rid[p]}
    /\ pc' = [pc EXCEPT ![p] = "deallocate"]

\* lines 402-416: _read_processing_result, metrics, `return result`
Read(p) ==
    /\ pc[p] = "read"
    /\ result' = [result EXCEPT ![p] = ShmResult(rid[p])]
    /\ metrics' = CountSuccess(metrics)
    /\ CleanupRequest(p)
    /\ UNCHANGED <<now, http_fallback_enabled, request_semaphore, segVars,
                   rid, shm, completed, exc>>
    /\ UNCHANGED outsideBridge

\* lines 418-444: except Exception as e; with fallback disabled it returns
\* the error result itself
Except(p) ==
    /\ pc[p] = "except"
    /\ metrics' = CountFailure(metrics)
    /\ exc' = [exc EXCEPT ![p] = None]
    /\ IF http_fallback_enabled
       THEN /\ pc' = [pc EXCEPT ![p] = "fallback"]
            /\ UNCHANGED <<result, active_requests, active_events,
                           event_locks>>
       ELSE /\ result' = [result EXCEPT ![p] = ErrorResult(rid[p], exc[p])]
            /\ CleanupRequest(p)
    /\ UNCHANGED <<now, http_fallback_enabled, request_semaphore, segVars,
                   rid, shm, completed>>
    /\ UNCHANGED outsideBridge

\* lines 528-549: return await _fallback_to_http
Fallback(p) ==
    /\ pc[p] = "fallback"
    /\ metrics' = [metrics EXCEPT !.fallback_http_requests = @ + 1]
    /\ result' = [result EXCEPT ![p] = HttpResult(rid[p])]
    /\ CleanupRequest(p)
    /\ UNCHANGED <<now, http_fallback_enabled, request_semaphore, segVars,
                   rid, shm, completed, exc>>
    /\ UNCHANGED outsideBridge

\* finally, line 562: await deallocate_segment; then the call returns
Deallocate(p) ==
    /\ pc[p] = "deallocate"
    /\ \E ok \in BOOLEAN :
          LET o == DeallocateSegment(active_segments, shared_memory_objects,
                                     shm_os, rid[p], ok)
          IN /\ active_segments' = o.segs
             /\ shared_memory_objects' = o.objs
             /\ shm_os' = o.os
             /\ shm' = CloseHandles(shm, o.closed)
    /\ pc' = [pc EXCEPT ![p] = "done"]
    /\ UNCHANGED <<now, http_fallback_enabled, syncVars, active_requests,
                   metrics, rid, completed, exc, result>>
    /\ UNCHANGED outsideBridge

\* the caller has the result; the task is free for another call
Return(p) ==
    /\ pc[p] = "done"
    /\ pc' = [pc EXCEPT ![p] = "idle"]
    /\ rid' = [rid EXCEPT ![p] = NoId]
    /\ shm' = [shm EXCEPT ![p] = NoHandle]
    /\ completed' = [completed EXCEPT ![p] = None]
    /\ exc' = [exc EXCEPT ![p] = None]
    /\ result' = [result EXCEPT ![p] = NoResult]
    /\ UNCHANGED <<now, http_fallback_enabled, syncVars, segVars,
                   active_requests, metrics>>
    /\ UNCHANGED outsideBridge

Next ==
    \/ Tick
    \/ \E p \in Tasks :
          \/ Start(p) \/ Allocate(p) \/ WriteAndSignal(p) \/ Wait(p)
          \/ Read(p) \/ Except(p) \/ Fallback(p) \/ Deallocate(p)
          \/ Return(p)


\* ------------------------------------------ SynchronizationManager alone
\* Callers use the manager's four methods in any order and for any id; caller
\* p keeps the id it waited for in rid[p] and the returned value in
\* completed[p].

\* create_request_event(r)
SyncCreate(r) ==
    /\ active_events' = CreateRequestEvent(active_events, r)
    /\ event_locks' = event_locks \cup {r}
    /\ UNCHANGED <<now, http_fallback_enabled, request_semaphore, segVars,
                   active_requests, metrics, pc, localVars>>
    /\ UNCHANGED outsideBridge

\* signal_processing_ready(r)
SyncSignal(r) ==
    /\ active_events' = SignalProcessingReady(active_events, r)
    /\ UNCHANGED <<now, http_fallback_enabled, request_semaphore, event_locks,
                   segVars, active_requests, metrics, pc, localVars>>
    /\ UNCHANGED outsideBridge

\* completed = wait_for_completion(r, timeout): the timeout has run out when
\* the event is still clear
SyncWait(p, r) ==
    /\ rid' = [rid EXCEPT ![p] = r]
    /\ completed' = [completed EXCEPT ![p] =
                        IF WaitForCompletion(active_events, r)
                        THEN "True" ELSE "False"]
    /\ UNCHANGED <<now, http_fallback_enabled, syncVars, segVars,
                   active_requests, metrics, pc, shm, exc, result>>
    /\ UNCHANGED outsideBridge

\* cleanup_request(r)
SyncCleanup(r) ==
    /\ active_events' = SyncCleanupRequest(active_events, r)
    /\ event_locks' = event_locks \ {r}
    /\ UNCHANGED <<now, http_fallback_enabled, request_semaphore, segVars,
                   active_requests, metrics, pc, localVars>>
    /\ UNCHANGED outsideBridge

NextSync ==
    \E r \in Ids :
        \/ SyncCreate(r) \/ SyncSignal(r) \/ SyncCleanup(r)
        \/ \E p \in Tasks : SyncWait(p, r)

\* ------------------------------------------------- M4SharedMemoryBridge
\* (src/docker/apple-silicon-m4/shared-memory-bridge.py)
\* A segment is a mapped file: a fixed number of cells and the map's file
\* position.  A cell is one payload byte, the 4-byte header length word, or
\* one token of the JSON header; every write of the code (struct.pack, the
\* header, the payload) puts its cells at the file position.  The counters
\* of performance_metrics and access_count are not part of the state.

MaxPayload == 2        \* longest payload, in bytes
HeaderRoom == 5        \* cells an auto-created segment has beyond the payload
                       \* (1024 bytes in the code)

M4Names == {"test_image"}
Bytes == {0, 1}
Payloads == UNION {[1..n -> Bytes] : n \in 0..MaxPayload}
\* sizes create_shared_segment is called with: too small for a payload, and
\* what an auto-created segment of the longest payload gets
M4Sizes == {HeaderRoom - 1, HeaderRoom + MaxPayload}

\* Python values passed as metadata: None or a dict; of a dict's value only
\* its type is kept
PyNone == [py |-> "None", items |-> <<>>]
PyDict(items) == [py |-> "dict", items |-> items]
Metas ==
    {PyNone, PyDict(<<>>),
     PyDict(<<[key |-> "format", type |-> "str"]>>),
     PyDict(<<[key |-> "shape", type |-> "tuple"]>>),
     PyDict(<<[key |-> "format", type |-> "str"],
              [key |-> "shape", type |-> "list"]>>)}

\* cells
Cell(tag, n, sum, key, type) ==
    [tag |-> tag, n |-> n, sum |-> sum, key |-> key, type |-> type]
\* struct.pack("<I", n) and struct.unpack("<I", ...)[0]: four bytes, one
\* cell; any four bytes unpack to a number
Pack(n) == <<Cell("len", n, <<>>, "", "")>>
Unpack(cells) == IF cells[1].tag \in {"len", "byte"} THEN cells[1].n ELSE 0

RECURSIVE JsonDumps(_, _)

\* image_data is any bytes: besides the bytes 0 and 1, a payload may hold
\* the bytes that spell a length word and a header, those
\* write_image_data(<<0>>, None) puts before its payload; b = 2, 3, ...
\* stands for the run of payload bytes that spells the (b - 1)-th of them
Spelled == Pack(Len(JsonDumps(<<0>>, PyNone))) \o JsonDumps(<<0>>, PyNone)
ByteCell(b) ==
    IF b \in Bytes THEN Cell("byte", b, <<>>, "", "") ELSE Spelled[b - 1]
ZeroCell == ByteCell(0)
ByteCells(data) == [i \in 1..Len(data) |-> ByteCell(data[i])]
\* the payload bytes a cell holds
Byte(cell) ==
    IF cell.tag = "byte" THEN cell.n
    ELSE IF \E k \in 1..Len(Spelled) : Spelled[k] = cell
    THEN 1 + (CHOOSE k \in 1..Len(Spelled) : Spelled[k] = cell)
    ELSE -1
\* a payload that holds a frame of its own: a length word, a header and
\* the byte 0
FramedPayload == [k \in 1..Len(Spelled) |-> k + 1] \o <<0>>

\* mutant: the checksum ignores the payload
Checksum_Constant(cells) == <<>>

\* hashlib.sha256(data).hexdigest()[:16]: no two payloads of the model share
\* a checksum
Checksum(cells) == cells

\* metadata or {}
OrEmptyDict(m) == IF m.py = "None" \/ m.items = <<>> THEN PyDict(<<>>) ELSE m

\* json.dumps of a value of the metadata dict: a tuple is written as a JSON
\* array, like a list
JsonType(t) == IF t \in {"tuple", "list"} THEN "array" ELSE "string"
\* json.loads of it: a JSON array is read as a list
PyType(t) == IF t = "array" THEN "list" ELSE "str"

\* "size": len(image_data)
HeaderSize(data) == Len(data)

\* json.dumps(header_data).encode("utf-8"): the tokens of
\* {timestamp, size, checksum, metadata}; the last token closes the
\* object (n = 1)
JsonDumps(data, meta) ==
    LET tokens ==
            <<Cell("timestamp", 0, <<>>, "", ""),
              Cell("size", HeaderSize(data), <<>>, "", ""),
              Cell("checksum", 0, Checksum(ByteCells(data)), "", "")>> \o
            [i \in 1..Len(OrEmptyDict(meta).items) |->
                Cell("item", 0, <<>>, OrEmptyDict(meta).items[i].key,
                     JsonType(OrEmptyDict(meta).items[i].type))]
    IN [i \in 1..Len(tokens) |->
           IF i = Len(tokens) THEN [tokens[i] EXCEPT !.n = 1] ELSE tokens[i]]

\* json.loads(header_json.decode("utf-8")) and the keys read_image_data
\* uses; ok = FALSE when it raises: the text is not one whole JSON object
\* with "size", "checksum" and "metadata" (a text cut short or with
\* tokens after its end is not valid JSON)
JsonLoads(cells) ==
    IF /\ Len(cells) >= 3
       /\ cells[1].tag = "timestamp" /\ cells[2].tag = "size"
       /\ cells[3].tag = "checksum"
       /\ \A i \in 4..Len(cells) : cells[i].tag = "item"
       /\ \A i \in 3..Len(cells) : cells[i].n = (IF i = Len(cells) THEN 1 ELSE 0)
    THEN [ok |-> TRUE, size |-> cells[2].n, checksum |-> cells[3].sum,
          metadata |-> PyDict([i \in 1..(Len(cells) - 3) |->
                                  [key |-> cells[i + 3].key,
                                   type |-> PyType(cells[i + 3].type)]])]
    ELSE [ok |-> FALSE, size |-> 0, checksum |-> <<>>,
          metadata |-> PyDict(<<>>)]

\* os.open(O_CREAT | O_TRUNC), ftruncate(size), mmap: zero filled, at 0
NewSegment(size) ==
    [size |-> size, mem |-> [i \in 1..size |-> ZeroCell], pos |-> 0]

\* memory_map.seek(0)
Seek0(seg) == [seg EXCEPT !.pos = 0]

\* memory_map.write(cells): ValueError, nothing written, when they do not
\* fit between the position and the end
MmapWrite(seg, cells) ==
    IF seg.pos + Len(cells) > seg.size
    THEN [ok |-> FALSE, seg |-> seg]
    ELSE [ok |-> TRUE,
          seg |-> [seg EXCEPT
                     !.mem = [i \in 1..seg.size |->
                                 IF i > seg.pos /\ i <= seg.pos + Len(cells)
                                 THEN cells[i - seg.pos] ELSE seg.mem[i]],
                     !.pos = seg.pos + Len(cells)]]

\* memory_map.read(n): the n cells at the position, fewer at the end
MmapRead(seg, n) ==
    LET last == IF seg.pos + n > seg.size THEN seg.size ELSE seg.pos + n
    IN [cells |-> SubSeq(seg.mem, seg.pos + 1, last),
        seg |-> [seg EXCEPT !.pos = last]]

\* what read_image_data returns on failure: (None, None)
Failure == [none |-> TRUE, data |-> <<>>, meta |-> PyNone]
Returned(cells, meta) ==
    [none |-> FALSE, data |-> [i \in 1..Len(cells) |-> Byte(cells[i])],
     meta |-> meta]

\* write_image_data on segment seg (lines 221-240): the three writes, the
\* first that raises ends the call
WriteSegment(seg, data, meta) ==
    LET header_json == JsonDumps(data, meta)
        w1 == MmapWrite(Seek0(seg), Pack(Len(header_json)))
        w2 == MmapWrite(w1.seg, header_json)
        w3 == MmapWrite(w2.seg, ByteCells(data))
    IN IF ~w1.ok THEN w1
       ELSE IF ~w2.ok THEN w2
       ELSE w3

\* read_image_data on segment seg (lines 277-320)
ReadSegment(seg) ==
    LET r1 == MmapRead(Seek0(seg), 1)
        header_size == Unpack(r1.cells)
        r2 == MmapRead(r1.seg, header_size)
        header_data == JsonLoads(r2.cells)
        r3 == MmapRead(r2.seg, header_data.size)
    IN IF Len(r1.cells) # 1 THEN [ret |-> Failure, seg |-> r1.seg]
       ELSE IF ~header_data.ok THEN [ret |-> Failure, seg |-> r2.seg]
       ELSE IF Checksum(r3.cells) # header_data.checksum
       THEN [ret |-> Failure, seg |-> r3.seg]
       ELSE [ret |-> Returned(r3.cells, header_data.metadata),
             seg |-> r3.seg]

\* a call on the bridge: what was asked, with what, and what came back
M4Call(op, name, data, meta, ok, ret) ==
    [op |-> op, name |-> name, data |-> data, meta |-> meta, ok |-> ok,
     ret |-> ret]

\* threads that call the bridge at the same time
NumM4Threads == 2
MaxM4Writes == 2       \* write_image_data calls of one run with threads
M4Threads == 1..NumM4Threads

\* a thread: the call it is in (op), where it is in it (pc: the next map
\* operation), the arguments and locals of the call, and what it returned
M4Thread(op, pc_, data, meta, header, ret) ==
    [op |-> op, pc |-> pc_, data |-> data, meta |-> meta, header |-> header,
     ret |-> ret]

NoHeader == [ok |-> FALSE, size |-> 0, checksum |-> <<>>,
             metadata |-> PyDict(<<>>)]
IdleThread == M4Thread("none", "idle", <<>>, PyNone, NoHeader, Failure)

\* what the threads write: payloads of one byte without metadata, with
\* one item and with two, and the framed payload
ThreadWrites ==
    {[data |-> <<0>>, meta |-> PyNone],
     [data |-> <<1>>, meta |-> PyDict(<<[key |-> "format", type |-> "str"]>>)],
     [data |-> <<0>>,
      meta |-> PyDict(<<[key |-> "format", type |-> "str"],
                        [key |-> "shape", type |-> "list"]>>)],
     [data |-> FramedPayload, meta |-> PyNone]}
\* sizes the threads' segment is created with: those of M4Sizes, and what
\* an auto-created segment of the framed payload gets
ThreadSizes == M4Sizes \cup {Len(FramedPayload) + HeaderRoom}

\* M4SharedMemoryBridge(): no segment
M4Init ==
    /\ segments = <<>>
    /\ m4_call = M4Call("init", "", <<>>, PyNone, TRUE, Failure)
    /\ m4_threads = [t \in M4Threads |-> IdleThread]
    /\ m4_written = <<>>

\* create_shared_segment(name, size, "image")
CreateSharedSegment(name, size) ==
    /\ segments' = Put(segments, name, NewSegment(size))
    /\ m4_call' = M4Call("create", name, <<>>, PyNone, TRUE, Failure)
    /\ UNCHANGED <<m4_threads, m4_written>>
    /\ UNCHANGED outsideM4

\* write_image_data(name, data, meta); a missing segment is created with
\* len(image_data) + 1024 bytes
WriteImageData(name, data, meta) ==
    LET seg == IF name \in DOMAIN segments THEN segments[name]
               ELSE NewSegment(Len(data) + HeaderRoom)
        w == WriteSegment(seg, data, meta)
    IN /\ segments' = Put(segments, name, w.seg)
       /\ m4_call' = M4Call("write", name, data, meta, w.ok, Failure)
       /\ UNCHANGED <<m4_threads, m4_written>>
       /\ UNCHANGED outsideM4

\* read_image_data(name)
ReadImageData(name) ==
    /\ IF name \in DOMAIN segments
       THEN LET r == ReadSegment(segments[name])
            IN /\ segments' = [segments EXCEPT ![name] = r.seg]
               /\ m4_call' = M4Call("read", name, <<>>, PyNone,
                                    ~r.ret.none, r.ret)
       ELSE /\ segments' = segments
            /\ m4_call' = M4Call("read", name, <<>>, PyNone, FALSE, Failure)
    /\ UNCHANGED <<m4_threads, m4_written>>
    /\ UNCHANGED outsideM4

\* the payload cells of a segment whose last write was (data, meta)
PayloadStart(data, meta) == 1 + Len(JsonDumps(data, meta))

\* another process that maps the file changes payload byte i of the last
\* write to b
AlterPayload(name, i, b) ==
    /\ name \in DOMAIN segments
    /\ m4_call.name = name /\ m4_call.op \in {"write", "alter"} /\ m4_call.ok
    /\ i \in 1..Len(m4_call.data)
    /\ LET at == PayloadStart(m4_call.data, m4_call.meta) + i
       IN /\ segments[name].mem[at] # ByteCell(b)
          /\ segments' = [segments EXCEPT ![name].mem[at] = ByteCell(b)]
    /\ m4_call' = [m4_call EXCEPT !.op = "alter"]
    /\ UNCHANGED <<m4_threads, m4_written>>
    /\ UNCHANGED outsideM4

NextM4 ==
    \E name \in M4Names :
        \/ \E size \in M4Sizes : CreateSharedSegment(name, size)
        \/ \E data \in Payloads, meta \in Metas :
              WriteImageData(name, data, meta)
        \/ ReadImageData(name)
        \/ \E i \in 1..MaxPayload, b \in Bytes : AlterPayload(name, i, b)


\* ---- write_image_data and read_image_data called by threads: one step
\* for each operation on the map, with the thread's own code before it

\* the first call of a run creates the segment
CreateFirst(name, size) ==
    name \notin DOMAIN segments /\ CreateSharedSegment(name, size)

\* a thread leaves its call with a value
Leaves(t, ret) ==
    m4_threads' = [m4_threads EXCEPT ![t].pc = "done", ![t].ret = ret]

\* write_image_data(name, data, meta) up to memory_map.seek(0)
WriteSeek(t, name, data, meta) ==
    /\ name \in DOMAIN segments
    /\ m4_threads[t].pc = "idle"
    /\ Len(m4_written) < MaxM4Writes
    /\ m4_written' = Append(m4_written, [data |-> data, meta |-> meta])
    /\ segments' = [segments EXCEPT ![name] = Seek0(@)]
    /\ m4_threads' = [m4_threads EXCEPT ![t] =
                         M4Thread("write", "length", data, meta, NoHeader,
                                  Failure)]
    /\ UNCHANGED m4_call
    /\ UNCHANGED outsideM4

\* the writes of write_image_data in their order: the header length, the
\* header, the payload; one that raises ends the call with False
WriteNext(t, name) ==
    /\ m4_threads[t].op = "write"
    /\ m4_threads[t].pc \in {"length", "header", "payload"}
    /\ LET header_json == JsonDumps(m4_threads[t].data, m4_threads[t].meta)
           cells == IF m4_threads[t].pc = "length"
                    THEN Pack(Len(header_json))
                    ELSE IF m4_threads[t].pc = "header" THEN header_json
                    ELSE ByteCells(m4_threads[t].data)
           w == MmapWrite(segments[name], cells)
       IN /\ segments' = [segments EXCEPT ![name] = w.seg]
          /\ IF ~w.ok THEN Leaves(t, Failure)
             ELSE IF m4_threads[t].pc = "length"
             THEN m4_threads' = [m4_threads EXCEPT ![t].pc = "header"]
             ELSE IF m4_threads[t].pc = "header"
             THEN m4_threads' = [m4_threads EXCEPT ![t].pc = "payload"]
             ELSE Leaves(t, Returned(<<>>, PyNone))
    /\ UNCHANGED <<m4_call, m4_written>>
    /\ UNCHANGED outsideM4

\* read_image_data(name) up to memory_map.seek(0)
ReadSeek(t, name) ==
    /\ name \in DOMAIN segments
    /\ m4_threads[t].pc = "idle"
    /\ segments' = [segments EXCEPT ![name] = Seek0(@)]
    /\ m4_threads' = [m4_threads EXCEPT ![t] =
                         M4Thread("read", "length", <<>>, PyNone, NoHeader,
                                  Failure)]
    /\ UNCHANGED <<m4_call, m4_written>>
    /\ UNCHANGED outsideM4

\* memory_map.read(4) and the header length
ReadLength(t, name) ==
    /\ m4_threads[t].op = "read" /\ m4_threads[t].pc = "length"
    /\ LET r == MmapRead(segments[name], 1)
       IN /\ segments' = [segments EXCEPT ![name] = r.seg]
          /\ IF Len(r.cells) # 1 THEN Leaves(t, Failure)
             ELSE m4_threads' =
                     [m4_threads EXCEPT
                        ![t].pc = "header",
                        ![t].header = [NoHeader EXCEPT !.size = Unpack(r.cells)]]
    /\ UNCHANGED <<m4_call, m4_written>>
    /\ UNCHANGED outsideM4

\* memory_map.read(header_size) and json.loads
ReadHeader(t, name) ==
    /\ m4_threads[t].op = "read" /\ m4_threads[t].pc = "header"
    /\ LET r == MmapRead(segments[name], m4_threads[t].header.size)
           header_data == JsonLoads(r.cells)
       IN /\ segments' = [segments EXCEPT ![name] = r.seg]
          /\ IF ~header_data.ok THEN Leaves(t, Failure)
             ELSE m4_threads' = [m4_threads EXCEPT ![t].pc = "payload",
                                                  ![t].header = header_data]
    /\ UNCHANGED <<m4_call, m4_written>>
    /\ UNCHANGED outsideM4

\* memory_map.read(image_size), the checksum test and the return
ReadPayload(t, name) ==
    /\ m4_threads[t].op = "read" /\ m4_threads[t].pc = "payload"
    /\ LET r == MmapRead(segments[name], m4_threads[t].header.size)
       IN /\ segments' = [segments EXCEPT ![name] = r.seg]
          /\ IF Checksum(r.cells) # m4_threads[t].header.checksum
             THEN Leaves(t, Failure)
             ELSE Leaves(t, Returned(r.cells, m4_threads[t].header.metadata))
    /\ UNCHANGED <<m4_call, m4_written>>
    /\ UNCHANGED outsideM4

\* the caller takes the value and the thread may call again
ThreadReturn(t) ==
    /\ m4_threads[t].pc = "done"
    /\ m4_threads' = [m4_threads EXCEPT ![t] = IdleThread]
    /\ UNCHANGED <<segments, m4_call, m4_written>>
    /\ UNCHANGED outsideM4

NextM4Threads ==
    \E name \in M4Names :
        \/ \E size \in ThreadSizes : CreateFirst(name, size)
        \/ \E t \in M4Threads :
              \/ \E w \in ThreadWrites : WriteSeek(t, name, w.data, w.meta)
              \/ WriteNext(t, name)
              \/ ReadSeek(t, name)
              \/ ReadLength(t, name)
              \/ ReadHeader(t, name)
              \/ ReadPayload(t, name)
              \/ ThreadReturn(t)
\* ------------------------------------------------ DynamicBatchOptimizer
\* (src/ane-bridge/batch_optimizer.py)
\* system_load is a whole percentage; ane_usage is in hundredths (0.5 is 50,
\* and the 65.0 of a monitor sample is 6500).

MaxRequests == 3       \* longest request list given to optimize_batch
MaxOptCalls == 4       \* calls that leave an entry in a history, per run

DefaultInitialSize == 5
\* initial_size arguments: the scenario's, the default, one above the maxima
InitialSizes == {2, DefaultInitialSize, 25}
\* system_load values of _analyze_system_state (50 is also its answer when
\* it fails)
Loads == {20, 50, 85, 90}
\* utilization["ane_usage"] values
Usages == {30, 65, 90, 6500}

\* the limits of _adapt_batch_sizes, _increase_batch_sizes and
\* _decrease_batch_sizes
HighMin == 1
HighMax == 10
NormalMin == 2
NormalMax == 20
ConcurrentMin == 4
ConcurrentMax == 12
LowLoad == 30
HighLoad == 80
LowUsage == 50
HighUsage == 80
LowChunkMin == 10
\* deque(maxlen=...) of adaptation_history and performance_history
AdaptationMaxLen == 50
PerformanceMaxLen == 100

Min(a, b) == IF a < b THEN a ELSE b
Max(a, b) == IF a > b THEN a ELSE b

\* requests: a dict's priority, recognition_level, languages and
\* len(image_data) in KiB; tag tells the request objects of one list apart
RequestKinds ==
    {[priority |-> "high", recognition_level |-> "accurate",
      languages |-> <<"en-US">>, image_kib |-> 10],
     [priority |-> "normal", recognition_level |-> "accurate",
      languages |-> <<"en-US">>, image_kib |-> 10],
     [priority |-> "normal", recognition_level |-> "accurate",
      languages |-> <<"fr-FR">>, image_kib |-> 10],
     [priority |-> "normal", recognition_level |-> "fast",
      languages |-> <<"en-US">>, image_kib |-> 10],
     [priority |-> "normal", recognition_level |-> "accurate",
      languages |-> <<"en-US">>, image_kib |-> 50],
     [priority |-> "normal", recognition_level |-> "accurate",
      languages |-> <<"en-US">>, image_kib |-> 300],
     [priority |-> "low", recognition_level |-> "accurate",
      languages |-> <<"en-US">>, image_kib |-> 10],
     [priority |-> "urgent", recognition_level |-> "accurate",
      languages |-> <<"en-US">>, image_kib |-> 10]}

Tagged(kinds) ==
    [i \in 1..Len(kinds) |->
        [priority |-> kinds[i].priority,
         recognition_level |-> kinds[i].recognition_level,
         languages |-> kinds[i].languages,
         image_kib |-> kinds[i].image_kib, tag |-> i]]

RequestLists ==
    {Tagged(kinds) : kinds \in UNION {[1..n -> RequestKinds] : n \in 0..MaxRequests}}

\* BatchConfig(...) of __init__ (lines 70-78)
InitialConfig(initial_size) ==
    [high_priority_batch_size |-> Max(2, initial_size \div 2),
     normal_priority_batch_size |-> initial_size,
     max_concurrent |-> 8]

\* deque.append with a maxlen
AppendKept(h, e, maxlen) ==
    IF Len(h) < maxlen THEN Append(h, e) ELSE Append(Tail(h), e)

\* _adapt_batch_sizes, system_load < 30 (lines 218-227)
AdaptLow(c) ==
    [high_priority_batch_size |-> Min(HighMax, c.high_priority_batch_size + 1),
     normal_priority_batch_size |-> Min(NormalMax, c.normal_priority_batch_size + 2),
     max_concurrent |-> Min(ConcurrentMax, c.max_concurrent + 1)]

\* _adapt_batch_sizes, system_load > 80 (lines 229-238)
AdaptHigh(c) ==
    [high_priority_batch_size |-> Max(HighMin, c.high_priority_batch_size - 1),
     normal_priority_batch_size |-> Max(NormalMin, c.normal_priority_batch_size - 2),
     max_concurrent |-> Max(ConcurrentMin, c.max_concurrent - 1)]

\* the configuration _adapt_batch_sizes leaves for system_load
AdaptBatchSizes(c, system_load) ==
    IF system_load < LowLoad THEN AdaptLow(c)
    ELSE IF system_load > HighLoad THEN AdaptHigh(c)
    ELSE c

\* the entry _adapt_batch_sizes appends (lines 241-249)
AdaptationEntry(c, system_load) ==
    [system_load |-> system_load,
     high_priority_batch_size |-> c.high_priority_batch_size,
     normal_priority_batch_size |-> c.normal_priority_batch_size,
     max_concurrent |-> c.max_concurrent]

\* _increase_batch_sizes
IncreaseBatchSizes(c) ==
    [c EXCEPT
       !.high_priority_batch_size = Min(HighMax, @ + 1),
       !.normal_priority_batch_size = Min(NormalMax, @ + 1)]

\* _decrease_batch_sizes
DecreaseBatchSizes(c) ==
    [c EXCEPT
       !.high_priority_batch_size = Max(HighMin, @ - 1),
       !.normal_priority_batch_size = Max(NormalMin, @ - 1)]

\* the entry adjust_for_utilization appends to performance_history
\* (lines 141-149): the sizes before the adjustment
PerformanceEntry(c, ane_usage) ==
    [ane_usage |-> ane_usage,
     batch_size_high |-> c.high_priority_batch_size,
     batch_size_normal |-> c.normal_priority_batch_size]

\* [r for r in requests if r.get("priority", "normal") == priority]
OfPriority(requests, priority) ==
    LET Test(r) == r.priority = priority IN SelectSeq(requests, Test)

\* requests[i : i + size] ends at
ChunkEnd(i, size, n) == Min(i + size, n)

\* for i in range(0, len(requests), size): requests[i : i + size], each a
\* PrioritizedBatch of the priority
RECURSIVE Chunks(_, _, _, _)
Chunks(requests, size, priority, i) ==
    IF i >= Len(requests) THEN <<>>
    ELSE <<[requests |-> SubSeq(requests, i + 1,
                                ChunkEnd(i, size, Len(requests))),
            priority |-> priority]>> \o
         Chunks(requests, size, priority, i + size)

\* low_priority_batch_size = max(normal_priority_batch_size, 10)
LowPriorityBatchSize(c) == Max(c.normal_priority_batch_size, LowChunkMin)

\* mutant: the sort puts low before high
PriorityOrder_Reversed(priority) ==
    CASE priority = "high" -> 2
      [] priority = "normal" -> 1
      [] priority = "low" -> 0
      [] OTHER -> 1

\* priority_order.get(b.priority, 1)
PriorityOrder(priority) ==
    CASE priority = "high" -> 0
      [] priority = "normal" -> 1
      [] priority = "low" -> 2
      [] OTHER -> 1

\* prioritized_batches.sort(key=...): stable, by PriorityOrder
SortByPriority(batches) ==
    LET Rank(k) == LET Test(b) == PriorityOrder(b.priority) = k
                   IN SelectSeq(batches, Test)
    IN Rank(0) \o Rank(1) \o Rank(2)

\* _create_prioritized_batches (lines 258-336); a size of 0 makes range()
\* raise and the except branch return the one fallback batch
CreatePrioritizedBatches(requests, c) ==
    IF c.high_priority_batch_size = 0 \/ c.normal_priority_batch_size = 0
    THEN <<[requests |-> requests, priority |-> "normal"]>>
    ELSE SortByPriority(
             Chunks(OfPriority(requests, "high"),
                    c.high_priority_batch_size, "high", 0) \o
             Chunks(OfPriority(requests, "normal"),
                    c.normal_priority_batch_size, "normal", 0) \o
             Chunks(OfPriority(requests, "low"),
                    LowPriorityBatchSize(c), "low", 0))

\* _get_image_size_category, sizes in KiB
ImageSizeCategory(image_kib) ==
    IF image_kib < 50 THEN "small"
    ELSE IF image_kib < 200 THEN "medium"
    ELSE IF image_kib < 500 THEN "large"
    ELSE "xlarge"

\* sorted(level_requests, key=len(image_data)): stable
RECURSIVE SortBySize(_)
SortBySize(requests) ==
    IF requests = <<>> THEN <<>>
    ELSE LET least == CHOOSE k \in {requests[i].image_kib : i \in 1..Len(requests)} :
                         \A i \in 1..Len(requests) : k <= requests[i].image_kib
             Least(r) == r.image_kib = least
             Rest(r) == r.image_kib # least
         IN SelectSeq(requests, Least) \o SortBySize(SelectSeq(requests, Rest))

\* the loop of lines 433-454: consecutive requests of one size category
\* form a group
RECURSIVE SizeGroups(_)
SizeGroups(sorted) ==
    IF sorted = <<>> THEN <<>>
    ELSE LET category == ImageSizeCategory(sorted[1].image_kib)
             n == CHOOSE k \in 1..Len(sorted) :
                     /\ \A i \in 1..k :
                           ImageSizeCategory(sorted[i].image_kib) = category
                     /\ k < Len(sorted) =>
                           ImageSizeCategory(sorted[k + 1].image_kib) # category
         IN <<SubSeq(sorted, 1, n)>> \o
            SizeGroups(SubSeq(sorted, n + 1, Len(sorted)))

\* level_groups: the recognition levels in the order they first appear
RECURSIVE LevelGroups(_)
LevelGroups(requests) ==
    IF requests = <<>> THEN <<>>
    ELSE LET Same(r) == r.recognition_level = requests[1].recognition_level
             Other(r) == r.recognition_level # requests[1].recognition_level
         IN <<SelectSeq(requests, Same)>> \o
            LevelGroups(SelectSeq(requests, Other))

\* _group_similar_requests
RECURSIVE GroupsOfLevels(_)
GroupsOfLevels(levels) ==
    IF levels = <<>> THEN <<>>
    ELSE SizeGroups(SortBySize(levels[1])) \o GroupsOfLevels(Tail(levels))

GroupSimilarRequests(requests) ==
    LET final_groups == GroupsOfLevels(LevelGroups(requests))
    IN IF final_groups # <<>> THEN final_groups ELSE <<requests>>

\* _optimize_single_batch: a batch of more than 2 requests is split into
\* its groups of similar requests
OptimizeSingleBatch(batch) ==
    IF Len(batch.requests) <= 2 THEN <<batch>>
    ELSE LET groups == GroupSimilarRequests(batch.requests)
         IN [i \in 1..Len(groups) |->
                [requests |-> groups[i], priority |-> batch.priority]]

\* optimized_batches.extend(...) over the prioritized batches
RECURSIVE OptimizedBatches(_)
OptimizedBatches(batches) ==
    IF batches = <<>> THEN <<>>
    ELSE OptimizeSingleBatch(batches[1]) \o OptimizedBatches(Tail(batches))

\* what optimize_batch returns with configuration c:
\* [batch.requests for batch in optimized_batches]
BatchesFor(requests, c) ==
    LET optimized == OptimizedBatches(CreatePrioritizedBatches(requests, c))
    IN [i \in 1..Len(optimized) |-> optimized[i].requests]

\* a call on the optimizer: what was asked, with what, and what came back
OptCall(op, requests, system_load, ane_usage, batches) ==
    [op |-> op, requests |-> requests, system_load |-> system_load,
     ane_usage |-> ane_usage, batches |-> batches]

\* DynamicBatchOptimizer(initial_size, adaptive_sizing)
OptimizerInit(initial_size, adaptive) ==
    /\ adaptive_sizing = adaptive
    /\ current_config = InitialConfig(initial_size)
    /\ adaptation_history = <<>>
    /\ performance_history = <<>>
    /\ opt_call = OptCall("init", <<>>, 0, 0, <<>>)

\* the calls that left an entry in one of the histories
CallsRecorded == Len(adaptation_history) + Len(performance_history)

\* optimize_batch(requests) when _analyze_system_state finds system_load:
\* nothing for an empty list; else the tuning step (with adaptive sizing),
\* the prioritized batches and their split
OptimizeBatchStep(requests, system_load) ==
    /\ (requests # <<>> /\ adaptive_sizing) => CallsRecorded < MaxOptCalls
    /\ IF requests = <<>>
       THEN /\ opt_call' = OptCall("optimize", requests, 0, 0, <<>>)
            /\ UNCHANGED <<current_config, adaptation_history>>
       ELSE LET c == IF adaptive_sizing
                     THEN AdaptBatchSizes(current_config, system_load)
                     ELSE current_config
            IN /\ current_config' = c
               /\ adaptation_history' =
                     IF adaptive_sizing
                     THEN AppendKept(adaptation_history,
                                     AdaptationEntry(c, system_load),
                                     AdaptationMaxLen)
                     ELSE adaptation_history
               /\ opt_call' = OptCall("optimize", requests, system_load, 0,
                                      BatchesFor(requests, c))
    /\ UNCHANGED <<adaptive_sizing, performance_history>>

\* optimize_batch called on the optimizer alone
OptimizeBatch(requests, system_load) ==
    /\ OptimizeBatchStep(requests, system_load)
    /\ UNCHANGED outsideBatch

\* adjust_for_utilization({"ane_usage": ane_usage, ...})
AdjustForUtilization(ane_usage) ==
    /\ CallsRecorded < MaxOptCalls
    /\ performance_history' =
          AppendKept(performance_history,
                     PerformanceEntry(current_config, ane_usage),
                     PerformanceMaxLen)
    /\ current_config' =
          IF ane_usage < LowUsage THEN IncreaseBatchSizes(current_config)
          ELSE IF ane_usage > HighUsage THEN DecreaseBatchSizes(current_config)
          ELSE current_config
    /\ opt_call' = OptCall("adjust", <<>>, 0, ane_usage, <<>>)
    /\ UNCHANGED <<adaptive_sizing, adaptation_history>>
    /\ UNCHANGED outsideBatch

\* three requests of priority high, normal, normal
HighNormalNormal ==
    Tagged(<<[priority |-> "high", recognition_level |-> "accurate",
              languages |-> <<"en-US">>, image_kib |-> 10],
             [priority |-> "normal", recognition_level |-> "accurate",
              languages |-> <<"en-US">>, image_kib |-> 10],
             [priority |-> "normal", recognition_level |-> "accurate",
              languages |-> <<"en-US">>, image_kib |-> 10]>>)

\* request lists of the tuning runs: none, and high, normal, normal
TuningRequests == {<<>>, HighNormalNormal}

\* any sequence of optimize_batch and adjust_for_utilization calls
NextBatch ==
    \/ \E requests \in TuningRequests, system_load \in Loads :
          OptimizeBatch(requests, system_load)
    \/ \E ane_usage \in Usages : AdjustForUtilization(ane_usage)

\* the first call on the optimizer is optimize_batch
BatchOnce(requests, system_load) ==
    opt_call.op = "init" /\ OptimizeBatch(requests, system_load)

\* any request list batched by a new optimizer
NextBatching ==
    \E requests \in RequestLists, system_load \in Loads :
        BatchOnce(requests, system_load)


\* ---------------------------------------------------- ANEResourceMonitor
\* (src/ane-bridge/ane_resource_monitor.py)
\* ane_usage, throughput, efficiency_score, throttle_threshold and the
\* confidence are in hundredths (0.85 is 85, the 65.0 of a sample is 6500);
\* process_cpu is in two-hundredths, so that its double is in hundredths.
\* Temperatures are whole degrees.  A reading is the dict
\* get_current_utilization merges from its metric sources: ane_usage,
\* throughput and efficiency_score as _calculate_ane_utilization computes
\* them, and the ane_temperature and queue_depth a source reports
\* (_calculate_ane_utilization itself reports no temperature and a
\* queue_depth of 0).

MaxSamples == 4        \* samples taken in one run
RecentWindow == 3      \* readings get_performance_recommendations looks at
                       \* (20 in the code)

DefaultThrottleThreshold == 85
DefaultQueueSize == 50
DefaultMaxConcurrent == 10
HotTemperature == 80
UsageCap == 10000
LowAvgUsage == 30
HighAvgUsage == 80
LowAvgEfficiency == 60
RecommendBatchMax == 20
RecommendBatchMin == 1
RecommendConcurrentMin == 4
HistorySize == 1000

\* config["initial_batch_size"]: the least, the default, the greatest
InitialBatchSizes == {1, 5, 20}

\* _calculate_ane_utilization (lines 451-478)
CalculateAneUtilization(process_cpu) ==
    LET estimated_ane_usage == Min(UsageCap, process_cpu)
        estimated_throughput == Max(0, UsageCap - estimated_ane_usage)
    IN [ane_usage |-> estimated_ane_usage,
        throughput |-> estimated_throughput,
        efficiency_score |->
            Min(UsageCap, (1000 * estimated_throughput) \div
                              Max(100, estimated_ane_usage)),
        has_temperature |-> FALSE,
        ane_temperature |-> 0,
        queue_depth |-> 0]

\* a reading with the temperature and the queue depth of a source that
\* reports them
Reported(reading, ane_temperature, queue_depth) ==
    [reading EXCEPT !.has_temperature = TRUE,
                    !.ane_temperature = ane_temperature,
                    !.queue_depth = queue_depth]

\* process_cpu values: usage 0.5, 0.85, 0.90 and 65.0
ThrottleCpus == {50, 85, 90, 6500}
Temperatures == {70, 80, 81}
QueueDepths == {0, 5, 40, 41}
ThrottleReadings ==
    {CalculateAneUtilization(c) : c \in ThrottleCpus} \cup
    {Reported(CalculateAneUtilization(c), t, q) :
        c \in ThrottleCpus, t \in Temperatures, q \in QueueDepths}

\* process_cpu values: usage 0.2, 0.5, 0.9 and 95.0
RecommendCpus == {20, 50, 90, 9500}

\* ResourceAllocation(...) of __init__ (lines 74-80)
InitialAllocation(initial_batch_size) ==
    [max_concurrent_requests |-> DefaultMaxConcurrent,
     batch_size_recommendation |-> initial_batch_size,
     priority_queue_size |-> DefaultQueueSize,
     throttle_threshold |-> DefaultThrottleThreshold]

\* a call on the monitor: what was asked and what came back
MonCall(op, reading, throttle, recommendations, confidence) ==
    [op |-> op, reading |-> reading, throttle |-> throttle,
     recommendations |-> recommendations, confidence |-> confidence]

NoReading == CalculateAneUtilization(0)

\* ANEResourceMonitor(hardware_info, config)
MonitorInit(initial_batch_size, throttling) ==
    /\ adaptive_throttling = throttling
    /\ current_allocation = InitialAllocation(initial_batch_size)
    /\ utilization_history = <<>>
    /\ mon_call = MonCall("init", NoReading, FALSE, {}, 0)

\* utilization_history.append(ANEUtilization(...)) (lines 145-155)
Sampled(history, reading) == AppendKept(history, reading, HistorySize)

\* get_current_utilization() when the sources give reading
GetCurrentUtilization(reading) ==
    /\ Len(utilization_history) < MaxSamples
    /\ utilization_history' = Sampled(utilization_history, reading)
    /\ mon_call' = MonCall("utilization", reading, FALSE, {}, 0)
    /\ UNCHANGED <<adaptive_throttling, current_allocation>>
    /\ UNCHANGED outsideMonitor

\* mutant: a usage equal to the threshold throttles
UsageAbove_OrEqual(reading, allocation) ==
    reading.ane_usage >= allocation.throttle_threshold

\* the conditions of should_throttle (lines 202-209); a reading without
\* temperature counts as 0 degrees
UsageAbove(reading, allocation) ==
    reading.ane_usage > allocation.throttle_threshold
TemperatureAbove(reading) ==
    (IF reading.has_temperature THEN reading.ane_temperature ELSE 0) >
        HotTemperature
QueueAbove(reading, allocation) ==
    10 * reading.queue_depth > 8 * allocation.priority_queue_size

\* any(throttle_conditions)
ThrottleConditions(reading, allocation) ==
    \/ UsageAbove(reading, allocation)
    \/ TemperatureAbove(reading)
    \/ QueueAbove(reading, allocation)

\* should_throttle() when the sources give reading: without adaptive
\* throttling no reading is taken
ShouldThrottle(reading) ==
    /\ IF adaptive_throttling
       THEN /\ Len(utilization_history) < MaxSamples
            /\ utilization_history' = Sampled(utilization_history, reading)
            /\ mon_call' = MonCall("throttle", reading,
                                   ThrottleConditions(reading,
                                                      current_allocation),
                                   {}, 0)
       ELSE /\ utilization_history' = utilization_history
            /\ mon_call' = MonCall("throttle", NoReading, FALSE, {}, 0)
    /\ UNCHANGED <<adaptive_throttling, current_allocation>>
    /\ UNCHANGED outsideMonitor

\* list(self.utilization_history)[-20:]
Recent(history) ==
    IF Len(history) <= RecentWindow THEN history
    ELSE SubSeq(history, Len(history) - RecentWindow + 1, Len(history))

RECURSIVE SumOf(_, _)
SumOf(readings, field) ==
    IF readings = <<>> THEN 0
    ELSE readings[1][field] + SumOf(Tail(readings), field)

\* a recommendation: its type and the value it recommends
Recommendation(type, current, recommended) ==
    [type |-> type, current |-> current, recommended |-> recommended]

\* the recommendations of get_performance_recommendations (lines 243-276)
\* for the recent readings; avg < x is sum < x * len
Recommendations(recent, allocation) ==
    (IF SumOf(recent, "ane_usage") < LowAvgUsage * Len(recent)
     THEN {Recommendation("increase_batch_size",
                          allocation.batch_size_recommendation,
                          Min(RecommendBatchMax,
                              allocation.batch_size_recommendation + 2))}
     ELSE IF SumOf(recent, "ane_usage") > HighAvgUsage * Len(recent)
     THEN {Recommendation("decrease_batch_size",
                          allocation.batch_size_recommendation,
                          Max(RecommendBatchMin,
                              allocation.batch_size_recommendation - 1))}
     ELSE {}) \cup
    (IF SumOf(recent, "efficiency_score") < LowAvgEfficiency * Len(recent)
     THEN {Recommendation("optimize_concurrent_requests",
                          allocation.max_concurrent_requests,
                          Max(RecommendConcurrentMin,
                              allocation.max_concurrent_requests - 2))}
     ELSE {})

\* confidence = min(1.0, len(recent_utilizations) / 20.0)
Confidence(recent) == Min(100, (100 * Len(recent)) \div RecentWindow)

\* get_performance_recommendations()
GetPerformanceRecommendations ==
    /\ mon_call' =
          IF utilization_history = <<>>
          THEN MonCall("recommend", NoReading, FALSE, {}, 0)
          ELSE MonCall("recommend", NoReading, FALSE,
                       Recommendations(Recent(utilization_history),
                                       current_allocation),
                       Confidence(Recent(utilization_history)))
    /\ UNCHANGED <<adaptive_throttling, current_allocation,
                   utilization_history>>
    /\ UNCHANGED outsideMonitor

\* should_throttle() as the first call on a monitor
ThrottleFirst(reading) ==
    utilization_history = <<>> /\ mon_call.op = "init" /\ ShouldThrottle(reading)

NextThrottle == \E reading \in ThrottleReadings : ThrottleFirst(reading)

\* readings taken and recommendations asked for in any order
NextRecommend ==
    \/ \E process_cpu \in RecommendCpus :
          GetCurrentUtilization(CalculateAneUtilization(process_cpu))
    \/ GetPerformanceRecommendations

\* ---- optimize_allocation
LoadWindow == 3        \* readings _analyze_load_patterns looks at
                       \* (10 in the code)
LowLoadAverage == 3000
HighLoadAverage == 8000
TrendBand == 500
ThresholdFloor == 70
ThresholdStep == 5
AllocationConcurrentMax == 15
AllocationBatchMax == 15
AllocationConcurrentMin == 4
AllocationBatchMin == 2

\* config["throttle_threshold"]: one under the floor of 0.7, and the default
ConfiguredThresholds == {60, DefaultThrottleThreshold}

\* process_cpu values: usage 20.0, 90.0, 95.0 and 100.0
AllocationCpus == {2000, 9000, 9500, 10000}

\* list(self.utilization_history)[-10:]
RecentLoad(history) ==
    IF Len(history) <= LoadWindow THEN history
    ELSE SubSeq(history, Len(history) - LoadWindow + 1, Len(history))

\* utilization_trend: the last recent reading less the first
UtilizationTrend(history) ==
    LET recent_data == RecentLoad(history)
    IN IF Len(recent_data) >= 2
       THEN recent_data[Len(recent_data)].ane_usage - recent_data[1].ane_usage
       ELSE 0

\* the pattern of _analyze_load_patterns, from the average recent usage
LoadPattern(history) ==
    LET recent_data == RecentLoad(history)
        total == SumOf(recent_data, "ane_usage")
    IN IF history = <<>> THEN "unknown"
       ELSE IF total < LowLoadAverage * Len(recent_data) THEN "low_utilization"
       ELSE IF total > HighLoadAverage * Len(recent_data) THEN "high_utilization"
       ELSE "normal_utilization"

\* the trend of _analyze_load_patterns
LoadTrend(history) ==
    LET utilization_trend == UtilizationTrend(history)
        magnitude == IF utilization_trend < 0 THEN -utilization_trend
                     ELSE utilization_trend
    IN IF history = <<>> THEN "stable"
       ELSE IF magnitude < TrendBand THEN "stable"
       ELSE IF utilization_trend > TrendBand THEN "increasing"
       ELSE "decreasing"

\* _calculate_optimal_allocation
CalculateOptimalAllocation(allocation, pattern, trend) ==
    IF pattern = "low_utilization" /\ trend # "increasing"
    THEN [allocation EXCEPT
            !.max_concurrent_requests = Min(AllocationConcurrentMax, @ + 1),
            !.batch_size_recommendation = Min(AllocationBatchMax, @ + 1)]
    ELSE IF pattern = "high_utilization" /\ trend # "decreasing"
    THEN [allocation EXCEPT
            !.max_concurrent_requests = Max(AllocationConcurrentMin, @ - 1),
            !.batch_size_recommendation = Max(AllocationBatchMin, @ - 1),
            !.throttle_threshold = Max(ThresholdFloor, @ - ThresholdStep)]
    ELSE allocation

\* ANEResourceMonitor(hardware_info, config) with a configured
\* throttle_threshold
MonitorInitWith(throttle_threshold) ==
    /\ adaptive_throttling = TRUE
    /\ current_allocation =
          [InitialAllocation(DefaultInitialSize) EXCEPT
             !.throttle_threshold = throttle_threshold]
    /\ utilization_history = <<>>
    /\ mon_call = MonCall("init", NoReading, FALSE, {}, 0)

\* optimize_allocation(current_load)
OptimizeAllocation ==
    /\ current_allocation' =
          CalculateOptimalAllocation(current_allocation,
                                     LoadPattern(utilization_history),
                                     LoadTrend(utilization_history))
    /\ mon_call' = MonCall("optimize_allocation", NoReading, FALSE, {}, 0)
    /\ UNCHANGED <<adaptive_throttling, utilization_history>>
    /\ UNCHANGED outsideMonitor

\* the monitor sampling and optimizing its allocation
NextAllocate ==
    \/ \E c \in AllocationCpus :
          GetCurrentUtilization(CalculateAneUtilization(c))
    \/ OptimizeAllocation

\* -------------------------------------------------- CachePredictionModel
\* (src/ane-bridge/cache_predictor.py)
\* Probabilities, confidences, thresholds and accuracies are in hundredths.
\* The three prediction models of the repository return no prediction; the
\* model gives predict_cache_access the predictions that models return.
\* prediction_history is kept as the number of logged operations of each
\* type: its readers count the entries and their types.  Of a prediction
\* the key, the probability and the confidence are kept; of a cache entry
\* its age in seconds (0 without timestamp) and its access_count.

MaxPredictions == 3    \* predictions the three models return together
MaxEntries == 3        \* entries of the cache given to optimize_eviction
MaxOperations == 51    \* operations logged in one run

DefaultPredictionThreshold == 80
TopPredictions == 10
MinTuneHistory == 50
TuneTolerance == 10
DefaultTargetAccuracy == 85
LeastAgeSeconds == 360     \* 0.1 hour

\* test_thresholds
TestThresholds == <<50, 60, 70, 80, 90, 95>>
\* target_accuracy arguments: the default and 1.0
TargetAccuracies == {DefaultTargetAccuracy, 100}
\* prediction_threshold arguments of the constructor
PredictionThresholds == {DefaultPredictionThreshold, 90}

CacheKeys == 1..3
Probabilities == {50, 80, 90}
Confidences == {0, 50, 100}
Prediction(cache_key, probability, confidence) ==
    [cache_key |-> cache_key, probability |-> probability,
     confidence |-> confidence]
PredictionKinds ==
    {Prediction(k, p, c) : k \in CacheKeys, p \in Probabilities,
                           c \in Confidences}
\* eleven predictions of distinct keys above every threshold
ElevenPredictions == [k \in 1..(TopPredictions + 1) |-> Prediction(k, 90 + (k % 3), 100)]
\* what the three models return, one list after the other
PredictionLists ==
    UNION {[1..n -> PredictionKinds] : n \in 0..MaxPredictions} \cup
    {ElevenPredictions}

\* cache entries
Ages == {0, 100, 7200}
AccessCounts == {0, 1, 5}
CacheEntry(cache_key, age, access_count) ==
    [cache_key |-> cache_key, age |-> age, access_count |-> access_count]
\* cache_contents, in the order of the dict: keys 1..n
CacheContents ==
    UNION {{[i \in 1..n |-> CacheEntry(i, f[i][1], f[i][2])] :
               f \in [1..n -> Ages \X AccessCounts]} : n \in 0..MaxEntries}

\* list.sort: stable; Before(a, b) when a's key is less than b's
RECURSIVE SortedBy(_, _)
SortedBy(Before(_, _), s) ==
    IF s = <<>> THEN <<>>
    ELSE LET x == s[Len(s)]
             sorted == SortedBy(Before, SubSeq(s, 1, Len(s) - 1))
             Stays(e) == ~Before(x, e)
             Moves(e) == Before(x, e)
         IN SelectSeq(sorted, Stays) \o <<x>> \o SelectSeq(sorted, Moves)

\* the keys in the order of their first prediction (the keys of
\* grouped_predictions)
RECURSIVE KeysInOrder(_)
KeysInOrder(predictions) ==
    IF predictions = <<>> THEN <<>>
    ELSE LET Other(p) == p.cache_key # predictions[1].cache_key
         IN <<predictions[1].cache_key>> \o
            KeysInOrder(SelectSeq(predictions, Other))

RECURSIVE SumProbability(_)
SumProbability(ps) ==
    IF ps = <<>> THEN 0 ELSE ps[1].probability + SumProbability(Tail(ps))
RECURSIVE SumConfidence(_)
SumConfidence(ps) ==
    IF ps = <<>> THEN 0 ELSE ps[1].confidence + SumConfidence(Tail(ps))
RECURSIVE SumWeighted(_)
SumWeighted(ps) ==
    IF ps = <<>> THEN 0
    ELSE ps[1].probability * ps[1].confidence + SumWeighted(Tail(ps))

\* the combined prediction of one key (lines 345-371)
CombineKey(cache_key, key_predictions) ==
    IF Len(key_predictions) = 1 THEN key_predictions[1]
    ELSE Prediction(cache_key,
                    SumWeighted(key_predictions) \div
                        SumConfidence(key_predictions),
                    SumConfidence(key_predictions) \div Len(key_predictions))

\* _combine_predictions: the division by a zero sum of confidences raises,
\* and the except branch returns the predictions as they came
CombinePredictions(predictions) ==
    LET keys == KeysInOrder(predictions)
        Group(k) == LET Of(p) == p.cache_key = k
                    IN SelectSeq(predictions, Of)
    IN IF \E i \in 1..Len(keys) :
             Len(Group(keys[i])) > 1 /\ SumConfidence(Group(keys[i])) = 0
       THEN predictions
       ELSE [i \in 1..Len(keys) |-> CombineKey(keys[i], Group(keys[i]))]

\* p.probability >= self.prediction_threshold
Confident(p, threshold) == p.probability >= threshold

\* filtered_predictions.sort(key=probability, reverse=True)
MoreProbable(a, b) == a.probability > b.probability

\* mutant: every prediction that passes the filter is returned
Top_All(s) == s

\* filtered_predictions[:10]
Top(s) == IF Len(s) <= TopPredictions THEN s ELSE SubSeq(s, 1, TopPredictions)

\* what predict_cache_access returns for the models' predictions
PredictedAccess(predictions, threshold) ==
    LET Keep(p) == Confident(p, threshold)
    IN Top(SortedBy(MoreProbable,
                    SelectSeq(CombinePredictions(predictions), Keep)))

\* mutant: the higher score first
LowerScore_Descending(a, b) ==
    b.access_count * Max(a.age, LeastAgeSeconds) <
    a.access_count * Max(b.age, LeastAgeSeconds)

\* eviction_score = access_count / max(age / 3600, 0.1), compared by
\* cross-multiplication: the score of a is less than that of b
LowerScore(a, b) ==
    a.access_count * Max(b.age, LeastAgeSeconds) <
    b.access_count * Max(a.age, LeastAgeSeconds)

\* what optimize_eviction returns: the keys of the candidates sorted by
\* eviction_score
EvictionOrder(cache_contents) ==
    LET sorted == SortedBy(LowerScore, cache_contents)
    IN [i \in 1..Len(sorted) |-> sorted[i].cache_key]

\* the operations logged so far, by type
NoOperations == [hit |-> 0, miss |-> 0, other |-> 0]
Logged(history) == history.hit + history.miss + history.other

\* _calculate_accuracy_at_threshold as the fraction correct / total
CorrectAt(history, threshold) ==
    IF threshold <= 80 THEN history.hit ELSE history.miss
TotalPredictions(history) == Max(history.hit + history.miss, 1)

\* abs(accuracy - target_accuracy), times 100 * total
Distance(history, threshold, target) ==
    LET d == 100 * CorrectAt(history, threshold) -
             target * TotalPredictions(history)
    IN IF d < 0 THEN 0 - d ELSE d

\* min(threshold_performance.keys(), key=...): the first of the least
BestThreshold(history, target) ==
    LET i == CHOOSE i \in 1..Len(TestThresholds) :
                /\ \A j \in 1..Len(TestThresholds) :
                      Distance(history, TestThresholds[i], target) <=
                      Distance(history, TestThresholds[j], target)
                /\ \A j \in 1..(i - 1) :
                      Distance(history, TestThresholds[j], target) >
                      Distance(history, TestThresholds[i], target)
    IN TestThresholds[i]

\* mutant: the closest candidate is adopted whatever its accuracy
WithinTolerance_Always(history, threshold, target) == TRUE

\* abs(threshold_performance[best_threshold] - target_accuracy) < 0.1.  For
\* the targets 0.85 and 1.0 an accuracy exactly one tenth away (0.75, 0.95,
\* 0.9) gives the float difference 0.09999999999999998, which passes.
WithinTolerance(history, threshold, target) ==
    Distance(history, threshold, target) <=
        TuneTolerance * TotalPredictions(history)

\* the threshold tune_prediction_threshold leaves
TunedThreshold(history, threshold, target) ==
    IF Logged(history) < MinTuneHistory THEN threshold
    ELSE IF WithinTolerance(history, BestThreshold(history, target), target)
    THEN BestThreshold(history, target)
    ELSE threshold

\* a call on the predictor: what was asked, with what, and what came back
PredCall(op, predictions, combined, returned, cache_contents, evictions,
         target) ==
    [op |-> op, predictions |-> predictions, combined |-> combined,
     returned |-> returned, cache_contents |-> cache_contents,
     evictions |-> evictions, target |-> target]
PredCallOf(op) == PredCall(op, <<>>, <<>>, <<>>, <<>>, <<>>, 0)

\* CachePredictionModel(access_patterns, prediction_threshold)
PredictorInit(threshold) ==
    /\ is_initialized = FALSE
    /\ prediction_threshold = threshold
    /\ prediction_history = NoOperations
    /\ pred_call = PredCallOf("init")

\* initialize()
Initialize ==
    /\ is_initialized' = TRUE
    /\ pred_call' = PredCallOf("initialize")
    /\ UNCHANGED <<prediction_threshold, prediction_history>>
    /\ UNCHANGED outsidePredictor

\* predict_cache_access(request_data) when the models return predictions
PredictCacheAccess(predictions) ==
    /\ pred_call' =
          IF ~is_initialized
          THEN PredCall("predict", predictions, <<>>, <<>>, <<>>, <<>>, 0)
          ELSE PredCall("predict", predictions,
                        CombinePredictions(predictions),
                        PredictedAccess(predictions, prediction_threshold),
                        <<>>, <<>>, 0)
    /\ UNCHANGED <<is_initialized, prediction_threshold, prediction_history>>
    /\ UNCHANGED outsidePredictor

\* optimize_eviction(cache_contents)
OptimizeEviction(cache_contents) ==
    /\ pred_call' = PredCall("evict", <<>>, <<>>, <<>>, cache_contents,
                             EvictionOrder(cache_contents), 0)
    /\ UNCHANGED <<is_initialized, prediction_threshold, prediction_history>>
    /\ UNCHANGED outsidePredictor

\* update_metrics({"type": type, ...}): _learn_from_operation logs it
UpdateMetrics_Cache(type) ==
    /\ Logged(prediction_history) < MaxOperations
    /\ prediction_history' =
          [prediction_history EXCEPT
             ![IF type \in {"hit", "miss"} THEN type ELSE "other"] = @ + 1]
    /\ pred_call' = PredCallOf("update")
    /\ UNCHANGED <<is_initialized, prediction_threshold>>
    /\ UNCHANGED outsidePredictor

\* tune_prediction_threshold(target_accuracy)
TunePredictionThreshold(target) ==
    /\ prediction_threshold' =
          TunedThreshold(prediction_history, prediction_threshold, target)
    /\ pred_call' = PredCall("tune", <<>>, <<>>, <<>>, <<>>, <<>>, target)
    /\ UNCHANGED <<is_initialized, prediction_history>>
    /\ UNCHANGED outsidePredictor

OperationTypes == {"hit", "miss", "eviction"}

\* a new predictor, initialized or not, asked once
Unasked == pred_call.op \in {"init", "initialize"}
InitializeFirst == pred_call.op = "init" /\ Initialize
PredictOnce ==
    /\ Unasked
    /\ \E predictions \in PredictionLists : PredictCacheAccess(predictions)
EvictOnce ==
    /\ Unasked
    /\ \E cache_contents \in CacheContents : OptimizeEviction(cache_contents)

NextPredict == InitializeFirst \/ PredictOnce

NextEvict == InitializeFirst \/ EvictOnce

\* operations logged and the threshold tuned in any order
NextTune ==
    \/ \E type \in OperationTypes : UpdateMetrics_Cache(type)
    \/ \E target \in TargetAccuracies : TunePredictionThreshold(target)

\* ---------------------------------------------------- SharedMemoryClient
\* (src/ane-bridge/shared_memory_client.py)
\* A process_ocr call runs against a service whose answers are the inputs
\* of the step: the answer of the status probe, the outcome of the
\* shared-memory transport and the outcome of the HTTP transport.  Of the
\* image the kind of the argument and the number of bytes are kept.

MaxClientCalls == 3          \* process_ocr calls of one run
ClientMaxSegmentSize == 4    \* max_segment_size, in bytes

\* image_data: bytes of a length, or a string that is not base64, or an
\* object of an unsupported type
ImageLengths == {0, ClientMaxSegmentSize, ClientMaxSegmentSize + 1}
Images ==
    {[kind |-> "bytes", length |-> n] : n \in ImageLengths} \cup
    {[kind |-> "bad_base64", length |-> 0],
     [kind |-> "unsupported", length |-> 0]}

\* GET /api/v1/shmem/status: 200 with bridge_enabled true or false, another
\* status code, or an exception
ProbeAnswers == {"enabled", "disabled", "not_200", "raises"}
\* a transport: a response, a response carrying the service's error, or
\* an exception (creating the segment, the POST, a status code, the JSON)
TransportOutcomes == {"ok", "service_error", "raises"}

ClientMetrics(total, by_shm, by_http, fallback, successful, failed) ==
    [total_requests |-> total, shared_memory_requests |-> by_shm,
     http_requests |-> by_http, fallback_requests |-> fallback,
     successful_requests |-> successful, failed_requests |-> failed]

\* a process_ocr call: its arguments, what it attempted and its OCRResponse
ClientCall(op, image, force_http, probes, shm_attempts, shm_failed,
           http_attempts, http_failed, communication_mode, error) ==
    [op |-> op, image |-> image, force_http |-> force_http,
     probes |-> probes, shm_attempts |-> shm_attempts,
     shm_failed |-> shm_failed, http_attempts |-> http_attempts,
     http_failed |-> http_failed,
     communication_mode |-> communication_mode, error |-> error]

\* concurrent callers of process_ocr and the request ids they pass
NumClientTasks == 2
ClientTasks == 1..NumClientTasks

\* a caller: where it is in process_ocr ("idle" outside a call, "probe",
\* "post", "http" and "fallback" at the awaits, "done" when the call has
\* returned), its request id, and how many of shared_memory_requests,
\* http_requests and fallback_requests the call has incremented
Caller(pc_, request_id, mode_counts) ==
    [pc |-> pc_, request_id |-> request_id, mode_counts |-> mode_counts]

IdleCaller == Caller("idle", NoId, 0)

\* SharedMemoryClient(shared_memory_enabled=...)
ClientInit(enabled) ==
    /\ shared_memory_enabled = enabled
    /\ client_metrics = ClientMetrics(0, 0, 0, 0, 0, 0)
    /\ client_call = ClientCall("init", [kind |-> "bytes", length |-> 0],
                                FALSE, 0, 0, 0, 0, 0, "None", "None")
    /\ client_tasks = [p \in ClientTasks |-> IdleCaller]
    /\ client_segments = <<>>

\* _normalize_image_data raises ValueError
NormalizeRaises(image) == image.kind # "bytes"

\* the conjuncts of use_shared_memory before the probe
ProbeReached(image, force_http) ==
    /\ shared_memory_enabled
    /\ ~force_http
    /\ image.length <= ClientMaxSegmentSize

\* _check_shared_memory_availability
SharedMemoryAvailable(probe) == probe = "enabled"

\* mutant: the fallback is reported as the plain HTTP transport
CommunicationMode_NoFallback(raised, use_shared_memory, shm_failed) ==
    IF raised THEN "error"
    ELSE IF ~use_shared_memory \/ shm_failed THEN "http"
    ELSE "shared_memory"

\* result.communication_mode as process_ocr sets it
CommunicationMode(raised, use_shared_memory, shm_failed) ==
    IF raised THEN "error"
    ELSE IF ~use_shared_memory THEN "http"
    ELSE IF shm_failed THEN "http_fallback"
    ELSE "shared_memory"

\* result.error of a transport's response
ResponseError(outcome) ==
    IF outcome = "service_error" THEN "service error" ELSE "None"

\* process_ocr(image_data, ..., force_http)
ProcessOcr(image, force_http, probe, shm_outcome, http_outcome) ==
    LET probed == ~NormalizeRaises(image) /\ ProbeReached(image, force_http)
        use_shared_memory == probed /\ SharedMemoryAvailable(probe)
        shm_failed == use_shared_memory /\ shm_outcome = "raises"
        http_tried == ~NormalizeRaises(image) /\
                      (~use_shared_memory \/ shm_failed)
        http_failed == http_tried /\ http_outcome = "raises"
        raised == NormalizeRaises(image) \/ http_failed
        communication_mode ==
            CommunicationMode(raised, use_shared_memory, shm_failed)
        error ==
            IF NormalizeRaises(image) THEN "ValueError"
            ELSE IF http_failed THEN "HTTP processing failed"
            ELSE IF http_tried THEN ResponseError(http_outcome)
            ELSE ResponseError(shm_outcome)
        One(b) == IF b THEN 1 ELSE 0
    IN /\ client_metrics.total_requests < MaxClientCalls
       /\ client_metrics' =
             ClientMetrics(
                client_metrics.total_requests + 1,
                client_metrics.shared_memory_requests +
                    One(communication_mode = "shared_memory"),
                client_metrics.http_requests + One(communication_mode = "http"),
                client_metrics.fallback_requests +
                    One(communication_mode = "http_fallback"),
                client_metrics.successful_requests +
                    One(~raised /\ error = "None"),
                client_metrics.failed_requests +
                    One(raised \/ error # "None"))
       /\ client_call' =
             ClientCall("process_ocr", image, force_http, One(probed),
                        One(use_shared_memory), One(shm_failed),
                        One(http_tried), One(http_failed),
                        communication_mode, error)
       /\ UNCHANGED <<shared_memory_enabled, client_tasks, client_segments>>
       /\ UNCHANGED outsideClient

NextClient ==
    \E image \in Images, force_http \in BOOLEAN, probe \in ProbeAnswers,
       shm_outcome \in TransportOutcomes, http_outcome \in TransportOutcomes :
        ProcessOcr(image, force_http, probe, shm_outcome, http_outcome)

\* ---- process_ocr of concurrent callers, one step from await to await

\* mutant: a response that carries an error is counted nowhere
CountOutcome_ErrorsDropped(m, error) ==
    IF error = "None" THEN [m EXCEPT !.successful_requests = @ + 1] ELSE m

\* lines 227-231: successful_requests or failed_requests by result.error
CountOutcome(m, error) ==
    IF error = "None" THEN [m EXCEPT !.successful_requests = @ + 1]
    ELSE [m EXCEPT !.failed_requests = @ + 1]

\* lines 166-184: total_requests += 1, the image is normalized (ValueError:
\* the except clause counts a failure and the call returns) and the
\* transport chosen up to the first await
ClientStart(p, r, image, force_http) ==
    /\ client_tasks[p].pc = "idle"
    /\ client_metrics.total_requests < MaxClientCalls
    /\ LET m == [client_metrics EXCEPT !.total_requests = @ + 1]
       IN IF NormalizeRaises(image)
          THEN /\ client_metrics' = [m EXCEPT !.failed_requests = @ + 1]
               /\ client_tasks' = [client_tasks EXCEPT ![p] = Caller("done", r, 0)]
          ELSE /\ client_metrics' = m
               /\ client_tasks' =
                     [client_tasks EXCEPT ![p] =
                         Caller(IF ProbeReached(image, force_http)
                                THEN "probe" ELSE "http", r, 0)]
    /\ UNCHANGED <<shared_memory_enabled, client_call, client_segments>>
    /\ UNCHANGED outsideClient

\* _check_shared_memory_availability returns; with shared memory the
\* segment is created and stored in active_segments (lines 388-395) and
\* the request posted; SharedMemory(create=True) raising leads to the
\* HTTP fallback
ClientProbe(p, probe, created) ==
    /\ client_tasks[p].pc = "probe"
    /\ IF ~SharedMemoryAvailable(probe)
       THEN /\ client_tasks' = [client_tasks EXCEPT ![p].pc = "http"]
            /\ UNCHANGED client_segments
       ELSE IF created
       THEN /\ client_tasks' = [client_tasks EXCEPT ![p].pc = "post"]
            /\ client_segments' =
                  Put(client_segments, client_tasks[p].request_id, p)
       ELSE /\ client_tasks' = [client_tasks EXCEPT ![p].pc = "fallback"]
            /\ UNCHANGED client_segments
    /\ UNCHANGED <<shared_memory_enabled, client_metrics, client_call>>
    /\ UNCHANGED outsideClient

\* the POST of _process_ocr_shared_memory returns or raises: the finally
\* clause deletes active_segments[request_id] (lines 436-439); a response
\* is counted by its mode and its error, an exception leads to the HTTP
\* fallback
ClientPost(p, outcome) ==
    /\ client_tasks[p].pc = "post"
    /\ client_segments' = Del(client_segments, client_tasks[p].request_id)
    /\ IF outcome = "raises"
       THEN /\ client_tasks' = [client_tasks EXCEPT ![p].pc = "fallback"]
            /\ UNCHANGED client_metrics
       ELSE /\ client_tasks' =
                  [client_tasks EXCEPT ![p].pc = "done",
                                       ![p].mode_counts = @ + 1]
            /\ client_metrics' =
                  CountOutcome([client_metrics EXCEPT
                                  !.shared_memory_requests = @ + 1],
                               ResponseError(outcome))
    /\ UNCHANGED <<shared_memory_enabled, client_call>>
    /\ UNCHANGED outsideClient

\* _process_ocr_http returns or raises, as the transport or as the
\* fallback: a response is counted by its mode and its error, an
\* exception is counted as a failure by the except clause
ClientHttp(p, outcome) ==
    /\ client_tasks[p].pc \in {"http", "fallback"}
    /\ IF outcome = "raises"
       THEN /\ client_tasks' = [client_tasks EXCEPT ![p].pc = "done"]
            /\ client_metrics' =
                  [client_metrics EXCEPT !.failed_requests = @ + 1]
       ELSE /\ client_tasks' =
                  [client_tasks EXCEPT ![p].pc = "done",
                                       ![p].mode_counts = @ + 1]
            /\ client_metrics' =
                  CountOutcome(
                     IF client_tasks[p].pc = "http"
                     THEN [client_metrics EXCEPT !.http_requests = @ + 1]
                     ELSE [client_metrics EXCEPT !.fallback_requests = @ + 1],
                     ResponseError(outcome))
    /\ UNCHANGED <<shared_memory_enabled, client_call, client_segments>>
    /\ UNCHANGED outsideClient

\* the caller takes the response and may call again
ClientReturn(p) ==
    /\ client_tasks[p].pc = "done"
    /\ client_tasks' = [client_tasks EXCEPT ![p] = IdleCaller]
    /\ UNCHANGED <<shared_memory_enabled, client_metrics, client_call,
                   client_segments>>
    /\ UNCHANGED outsideClient

NextClientTasks ==
    \E p \in ClientTasks :
       \/ \E r \in Ids, image \in Images, force_http \in BOOLEAN :
             ClientStart(p, r, image, force_http)
       \/ \E probe \in ProbeAnswers, created \in BOOLEAN :
             ClientProbe(p, probe, created)
       \/ \E outcome \in TransportOutcomes : ClientPost(p, outcome)
       \/ \E outcome \in TransportOutcomes : ClientHttp(p, outcome)
       \/ ClientReturn(p)

\* ------------------------------ ImageSegmentManager.calculate_segment_size
\* (src/ane-bridge/shared_memory_bridge.py), in bytes

MiB == 1048576
MetadataSize == 4096
AlignmentPadding == 1024

\* image_shape: no dimension, a length, height and width, or height, width
\* and channels
Dimensions == {0, 1, 480, 640, 1019, 1024, 1080, 1920}
Channels == {1, 3, 4}
ImageShapes ==
    {<<>>} \cup {<<h>> : h \in Dimensions} \cup
    {<<h, w>> : h \in Dimensions, w \in Dimensions} \cup
    {<<h, w, c>> : h \in Dimensions, w \in Dimensions, c \in Channels}
Dtypes == {"uint8", "float32", "float64"}

\* np.prod(image_shape)
RECURSIVE Prod(_)
Prod(shape) == IF shape = <<>> THEN 1 ELSE shape[1] * Prod(Tail(shape))

BytesPerPixel(dtype) == IF dtype = "float32" THEN 4 ELSE 1

\* mutant: one more unit than the whole units of the total
RoundUp_OneMore(total_size) == (total_size \div MiB + 1) * MiB

\* ((total_size + 1024 * 1024 - 1) // (1024 * 1024)) * (1024 * 1024)
RoundUp(total_size) == ((total_size + MiB - 1) \div MiB) * MiB

SegmentSize(image_shape, dtype) ==
    RoundUp(Prod(image_shape) * BytesPerPixel(dtype) + MetadataSize +
            AlignmentPadding)

\* a payload on its way into a new segment: its length, the shape
\* estimated for it, the size of the segment and the bytes copied
WriteCall(op, payload_len, image_shape, segment_size, raw_size, signaled) ==
    [op |-> op, payload_len |-> payload_len, image_shape |-> image_shape,
     segment_size |-> segment_size, raw_size |-> raw_size,
     signaled |-> signaled]

SizeInit ==
    /\ size_call = [op |-> "init", image_shape |-> <<>>,
                    dtype |-> "uint8", returned |-> 0]
    /\ write_call = WriteCall("init", 0, <<>>, 0, 0, FALSE)

\* calculate_segment_size(image_shape, dtype)
CalculateSegmentSize(image_shape, dtype) ==
    /\ size_call' = [op |-> "calculate_segment_size",
                     image_shape |-> image_shape, dtype |-> dtype,
                     returned |-> SegmentSize(image_shape, dtype)]
    /\ UNCHANGED write_call
    /\ UNCHANGED outsideSize

NextSize ==
    \E image_shape \in ImageShapes, dtype \in Dtypes :
        CalculateSegmentSize(image_shape, dtype)

\* payload lengths in bytes: the multiples of 256 KiB up to
\* MaxLengthUnits of them, and their neighbours
MaxLengthUnits == 100
KiB == 1024
PayloadLengths ==
    {n \in {k * 256 * KiB + d : k \in 0..MaxLengthUnits, d \in {-1, 0, 1}} :
        n >= 0}

\* _estimate_image_shape(image_data), from len(image_data)
EstimateImageShape(data_size) ==
    IF data_size > 5 * MiB THEN <<2160, 3840, 3>>
    ELSE IF data_size > 2 * MiB THEN <<1080, 1920, 3>>
    ELSE IF data_size > 500 * KiB THEN <<720, 1280, 3>>
    ELSE <<480, 640, 3>>

\* raw_size = min(len(image_data), shm.size - 4096)
RawSize(payload_len, segment_size) == Min(payload_len, segment_size - MetadataSize)

\* process_image_zero_copy up to the ready signal, for one request with a
\* free segment slot: the shape is estimated, the segment allocated with
\* the size of that shape, the first raw_size bytes of the payload copied
\* into its buffer, and the request signalled
WritePayload(payload_len) ==
    /\ LET image_shape == EstimateImageShape(payload_len)
           segment_size == SegmentSize(image_shape, "uint8")
       IN write_call' = WriteCall("write", payload_len, image_shape,
                                  segment_size,
                                  RawSize(payload_len, segment_size), TRUE)
    /\ UNCHANGED size_call
    /\ UNCHANGED outsideSize

NextWrite == \E payload_len \in PayloadLengths : WritePayload(payload_len)

\* ------------------------------------- VisionProcessor.process_batch_async
\* (src/ane-bridge/vision_processor.py)
\* The requests are those of the optimizer's model.  Which requests fail in
\* _process_request_async is an input of the call.  A result keeps the tag
\* of the request it was produced for and whether it carries an error.

\* VisionProcessor(config), before or after _initialize_batch_optimizer
ProcessorInit(enabled, optimizer) ==
    /\ adaptive_sizing_enabled = enabled
    /\ has_batch_optimizer = optimizer
    /\ batch_call = [op |-> "init", requests |-> <<>>, failing |-> {},
                     batches |-> <<>>, results |-> <<>>]

\* _process_single_batch_async: one result per request of the batch, an
\* error result where the request's task raised
SingleBatchResults(batch, failing) ==
    [i \in 1..Len(batch) |->
        [item |-> batch[i].tag, error |-> batch[i].tag \in failing]]

\* results.extend(batch_result) over the batches
RECURSIVE Flattened(_, _)
Flattened(batches, failing) ==
    IF batches = <<>> THEN <<>>
    ELSE SingleBatchResults(batches[1], failing) \o
         Flattened(Tail(batches), failing)

\* process_batch_async(requests)
ProcessBatchAsync(requests, system_load, failing) ==
    /\ IF requests = <<>>
       THEN /\ batch_call' = [op |-> "process_batch_async",
                              requests |-> requests, failing |-> failing,
                              batches |-> <<>>, results |-> <<>>]
            /\ UNCHANGED batchVars
       ELSE IF adaptive_sizing_enabled /\ has_batch_optimizer
       THEN /\ OptimizeBatchStep(requests, system_load)
            /\ batch_call' = [op |-> "process_batch_async",
                              requests |-> requests, failing |-> failing,
                              batches |-> opt_call'.batches,
                              results |-> Flattened(opt_call'.batches, failing)]
       ELSE /\ batch_call' = [op |-> "process_batch_async",
                              requests |-> requests, failing |-> failing,
                              batches |-> <<requests>>,
                              results |-> Flattened(<<requests>>, failing)]
            /\ UNCHANGED batchVars
    /\ UNCHANGED <<adaptive_sizing_enabled, has_batch_optimizer>>
    /\ UNCHANGED outsideProcessor

\* the first call on the processor
ProcessBatchOnce ==
    /\ batch_call.op = "init"
    /\ \E requests \in RequestLists, system_load \in Loads :
          \E failing \in SUBSET (1..Len(requests)) :
             ProcessBatchAsync(requests, system_load, failing)

NextProcessBatch == ProcessBatchOnce

\* --------------------------------------------- VisionProcessor.process_ocr
\* (src/ane-bridge/vision_processor.py)
\* The processor is initialized.  An OCRResult is an object: ocr_results[o]
\* holds the fields of the o-th object created, and the cache and the
\* callers hold o.  Of a result the request_id, cache_hit and error are
\* kept.  How the backend answers is an input of the call.  cache_hit_rate
\* is kept in whole percent.  The calls run one after the other.

MaxOcrCalls == 4       \* process_ocr calls of one run
CacheMaxSize == 2      \* config "caching" "max_size"
NumCacheKeys == 2      \* distinct cache keys of the requests

CacheTtlSeconds == 300

OcrKeys == 1..NumCacheKeys
OcrRequestIds == {"r1", "r2"}
\* the backend returns a result, a result carrying an error, or raises
BackendOutcomes == {"ok", "error", "raises"}

\* ProcessingMetrics(...) of __init__
OcrInit ==
    /\ processor_metrics = [total_requests |-> 0, successful_requests |-> 0,
                            failed_requests |-> 0, cache_hits |-> 0,
                            cache_hit_rate |-> 0]
    /\ result_cache = <<>>
    /\ ocr_results = <<>>
    /\ ocr_call = [op |-> "init", request_id |-> "None", returned |-> 0,
                   from_cache |-> FALSE]

\* the entries of the cache under a key
CachedUnder(cache, cache_key) ==
    LET Is(e) == e.cache_key = cache_key IN SelectSeq(cache, Is)

\* _get_cached_result: the object cached under the key and not expired,
\* or 0 for None
GetCachedResult(cache, cache_key, t) ==
    LET found == CachedUnder(cache, cache_key)
    IN IF found # <<>> /\ t - found[1].timestamp < CacheTtlSeconds
       THEN found[1].result ELSE 0

\* the cache _get_cached_result leaves: an expired entry is deleted
AfterLookup(cache, cache_key, t) ==
    LET Stays(e) == e.cache_key # cache_key \/
                    t - e.timestamp < CacheTtlSeconds
    IN SelectSeq(cache, Stays)

\* _cache_result: a full cache loses its oldest entry, the first of the
\* oldest in dict order
CacheResult(cache, cache_key, o, t) ==
    LET oldest == CHOOSE i \in 1..Len(cache) :
                     /\ \A j \in 1..Len(cache) :
                           cache[i].timestamp <= cache[j].timestamp
                     /\ \A j \in 1..(i - 1) :
                           cache[j].timestamp > cache[i].timestamp
        kept == IF Len(cache) >= CacheMaxSize
                THEN SubSeq(cache, 1, oldest - 1) \o
                     SubSeq(cache, oldest + 1, Len(cache))
                ELSE cache
    IN Append(kept, [cache_key |-> cache_key, result |-> o, timestamp |-> t])

\* (cache_hits / total_requests) * 100, in whole percent
HitRate(cache_hits, total_requests) == (cache_hits * 100) \div total_requests

\* _update_metrics(processing_time_ms, success)
UpdateProcessorMetrics(m, success) ==
    [m EXCEPT !.total_requests = @ + 1,
              !.successful_requests = IF success THEN @ + 1 ELSE @,
              !.failed_requests = IF success THEN @ ELSE @ + 1,
              !.cache_hit_rate = HitRate(m.cache_hits, m.total_requests + 1)]

\* the process_ocr calls begun so far
OcrCalls == processor_metrics.total_requests + processor_metrics.cache_hits

\* process_ocr(image_data, ..., request_id) for an image with this cache key
VisionProcessOcr(cache_key, request_id, outcome) ==
    LET cached_result == GetCachedResult(result_cache, cache_key, now)
        looked == AfterLookup(result_cache, cache_key, now)
        o == Len(ocr_results) + 1
    IN /\ OcrCalls < MaxOcrCalls
       /\ IF cached_result # 0
          THEN /\ processor_metrics' =
                     [processor_metrics EXCEPT !.cache_hits = @ + 1]
               /\ ocr_results' =
                     [ocr_results EXCEPT
                         ![cached_result].cache_hit = TRUE,
                         ![cached_result].request_id = request_id]
               /\ result_cache' = looked
               /\ ocr_call' = [op |-> "process_ocr", request_id |-> request_id,
                               returned |-> cached_result, from_cache |-> TRUE]
          ELSE /\ ocr_results' =
                     Append(ocr_results,
                            [request_id |-> request_id, cache_hit |-> FALSE,
                             error |-> IF outcome = "ok" THEN "None"
                                       ELSE outcome])
               /\ result_cache' =
                     IF outcome = "ok"
                     THEN CacheResult(looked, cache_key, o, now)
                     ELSE looked
               /\ processor_metrics' =
                     UpdateProcessorMetrics(processor_metrics, outcome = "ok")
               /\ ocr_call' = [op |-> "process_ocr", request_id |-> request_id,
                               returned |-> o, from_cache |-> FALSE]
       /\ UNCHANGED outsideOcr

NextOcr ==
    \/ Tick
    \/ \E cache_key \in OcrKeys, request_id \in OcrRequestIds,
          outcome \in BackendOutcomes :
          VisionProcessOcr(cache_key, request_id, outcome)

\* ------------------------------------------------------- background loops
\* (src/ane-bridge/ane_resource_monitor.py, src/ane-bridge/vision_processor.py)
\* Of a loop its position is kept: "idle" before its task is created,
\* "test" at the loop condition, "body" in the try block, "sleep" in
\* asyncio.sleep, "stopped" after the coroutine returned.  What the bodies
\* do to the monitor, the optimizer and the queues is not part of this
\* component.  No code of the repository cancels the tasks.

ProcessorLoops == {"prediction_processor", "cache_preloader",
                   "resource_monitor_loop"}

LoopsInit ==
    /\ monitoring_active = FALSE
    /\ monitor_loop = "idle"
    /\ processor_loops = [l \in ProcessorLoops |-> "idle"]
    /\ shut_down = {}

\* ANEResourceMonitor.initialize(): the loop task is created, then
\* monitoring_active is set, before the task first runs
MonitorInitialize ==
    /\ monitor_loop = "idle"
    /\ "monitor" \notin shut_down
    /\ monitor_loop' = "test"
    /\ monitoring_active' = TRUE
    /\ UNCHANGED <<processor_loops, shut_down>>
    /\ UNCHANGED <<outsideLoops, ocrVars>>

\* while self.monitoring_active
MonitorLoopTest ==
    /\ monitor_loop = "test"
    /\ monitor_loop' = IF monitoring_active THEN "body" ELSE "stopped"
    /\ UNCHANGED <<monitoring_active, processor_loops, shut_down>>
    /\ UNCHANGED <<outsideLoops, ocrVars>>

\* the try block up to the sleep, or an exception and the back-off sleep
MonitorLoopBody ==
    /\ monitor_loop = "body"
    /\ monitor_loop' = "sleep"
    /\ UNCHANGED <<monitoring_active, processor_loops, shut_down>>
    /\ UNCHANGED <<outsideLoops, ocrVars>>

\* asyncio.sleep returns
MonitorLoopWake ==
    /\ monitor_loop = "sleep"
    /\ monitor_loop' = "test"
    /\ UNCHANGED <<monitoring_active, processor_loops, shut_down>>
    /\ UNCHANGED <<outsideLoops, ocrVars>>

\* ANEResourceMonitor.shutdown()
MonitorShutdown ==
    /\ monitor_loop # "idle"
    /\ "monitor" \notin shut_down
    /\ monitoring_active' = FALSE
    /\ shut_down' = shut_down \cup {"monitor"}
    /\ UNCHANGED <<monitor_loop, processor_loops>>
    /\ UNCHANGED <<outsideLoops, ocrVars>>

\* VisionProcessor.initialize(): the three tasks are created; the
\* preloader returns at once without cache intelligence, the monitor loop
\* without a resource monitor
ProcessorInitialize(cache_intelligence_enabled, has_resource_monitor) ==
    /\ \A l \in ProcessorLoops : processor_loops[l] = "idle"
    /\ "processor" \notin shut_down
    /\ processor_loops' =
          [l \in ProcessorLoops |->
              IF \/ l = "cache_preloader" /\ ~cache_intelligence_enabled
                 \/ l = "resource_monitor_loop" /\ ~has_resource_monitor
              THEN "stopped" ELSE "body"]
    /\ UNCHANGED <<monitoring_active, monitor_loop, shut_down>>
    /\ UNCHANGED <<outsideLoops, ocrVars>>

\* while True: after the sleep the body runs again
AfterSleep(l) == "body"

\* the try block of a processor loop up to its sleep, or an exception and
\* the back-off sleep
ProcessorLoopBody(l) ==
    /\ processor_loops[l] = "body"
    /\ processor_loops' = [processor_loops EXCEPT ![l] = "sleep"]
    /\ UNCHANGED <<monitoring_active, monitor_loop, shut_down>>
    /\ UNCHANGED <<outsideLoops, ocrVars>>

\* asyncio.sleep returns in a processor loop
ProcessorLoopWake(l) ==
    /\ processor_loops[l] = "sleep"
    /\ processor_loops' = [processor_loops EXCEPT ![l] = AfterSleep(l)]
    /\ UNCHANGED <<monitoring_active, monitor_loop, shut_down>>
    /\ UNCHANGED <<outsideLoops, ocrVars>>

\* VisionProcessor.cleanup(): the executor is shut down and the result
\* cache cleared
ProcessorCleanup ==
    /\ \E l \in ProcessorLoops : processor_loops[l] # "idle"
    /\ "processor" \notin shut_down
    /\ result_cache' = <<>>
    /\ shut_down' = shut_down \cup {"processor"}
    /\ UNCHANGED <<processor_metrics, ocr_results, ocr_call>>
    /\ UNCHANGED <<monitoring_active, monitor_loop, processor_loops>>
    /\ UNCHANGED outsideLoops

\* the steps of the monitor's loop task
MonitorLoopStep == MonitorLoopTest \/ MonitorLoopBody \/ MonitorLoopWake

\* the steps of one loop task of the processor
ProcessorLoopStep(l) == ProcessorLoopBody(l) \/ ProcessorLoopWake(l)

NextLoops ==
    \/ MonitorInitialize \/ MonitorShutdown
    \/ \E cache_intelligence_enabled \in BOOLEAN,
          has_resource_monitor \in BOOLEAN :
          ProcessorInitialize(cache_intelligence_enabled, has_resource_monitor)
    \/ ProcessorCleanup
    \/ MonitorLoopStep
    \/ \E l \in ProcessorLoops : ProcessorLoopStep(l)
\* --------------------------------------------------------- specifications
\* the components as their constructors leave them, the bridge with
\* either setting of http_fallback_enabled
InitAll ==
    /\ Init
    /\ M4Init
    /\ OptimizerInit(DefaultInitialSize, TRUE)
    /\ MonitorInit(DefaultInitialSize, TRUE)
    /\ PredictorInit(DefaultPredictionThreshold)
    /\ ClientInit(TRUE)
    /\ SizeInit
    /\ ProcessorInit(TRUE, TRUE)
    /\ OcrInit
    /\ LoopsInit

\* the bridge serving concurrent calls
Spec == InitAll /\ [][Next]_vars

\* the synchronization manager driven method by method
SpecSync == InitAll /\ [][NextSync]_vars

\* the M4 bridge driven call by call
SpecM4 == InitAll /\ [][NextM4]_vars

\* the optimizer constructed with any of the initial sizes, with and without
\* adaptive sizing
InitBatch ==
    /\ Init
    /\ http_fallback_enabled = TRUE
    /\ M4Init
    /\ MonitorInit(DefaultInitialSize, TRUE)
    /\ PredictorInit(DefaultPredictionThreshold)
    /\ ClientInit(TRUE)
    /\ SizeInit
    /\ ProcessorInit(TRUE, TRUE)
    /\ OcrInit
    /\ LoopsInit
    /\ \E initial_size \in InitialSizes, adaptive \in BOOLEAN :
          OptimizerInit(initial_size, adaptive)

\* the batch optimizer driven call by call
SpecBatch == InitBatch /\ [][NextBatch]_vars

\* one optimize_batch call on any request list
SpecBatching == InitBatch /\ [][NextBatching]_vars


\* the monitor constructed with any of the initial batch sizes, with and
\* without adaptive throttling
InitMonitor ==
    /\ Init
    /\ http_fallback_enabled = TRUE
    /\ M4Init
    /\ OptimizerInit(DefaultInitialSize, TRUE)
    /\ PredictorInit(DefaultPredictionThreshold)
    /\ ClientInit(TRUE)
    /\ SizeInit
    /\ ProcessorInit(TRUE, TRUE)
    /\ OcrInit
    /\ LoopsInit
    /\ \E initial_batch_size \in InitialBatchSizes, throttling \in BOOLEAN :
          MonitorInit(initial_batch_size, throttling)

\* one should_throttle call on any reading
SpecThrottle == InitMonitor /\ [][NextThrottle]_vars

\* the monitor sampling and recommending
SpecRecommend == InitMonitor /\ [][NextRecommend]_vars

\* the predictor constructed with either threshold
InitPredictor ==
    /\ Init
    /\ http_fallback_enabled = TRUE
    /\ M4Init
    /\ OptimizerInit(DefaultInitialSize, TRUE)
    /\ MonitorInit(DefaultInitialSize, TRUE)
    /\ ClientInit(TRUE)
    /\ SizeInit
    /\ ProcessorInit(TRUE, TRUE)
    /\ OcrInit
    /\ LoopsInit
    /\ \E threshold \in PredictionThresholds : PredictorInit(threshold)

\* one predict_cache_access call, before or after initialize()
SpecPredict == InitPredictor /\ [][NextPredict]_vars

\* one optimize_eviction call
SpecEvict == InitPredictor /\ [][NextEvict]_vars

\* the predictor logging operations and tuning its threshold
SpecTune == InitPredictor /\ [][NextTune]_vars

\* the client constructed with shared memory enabled or not
InitClient ==
    /\ Init
    /\ http_fallback_enabled = TRUE
    /\ M4Init
    /\ OptimizerInit(DefaultInitialSize, TRUE)
    /\ MonitorInit(DefaultInitialSize, TRUE)
    /\ PredictorInit(DefaultPredictionThreshold)
    /\ SizeInit
    /\ ProcessorInit(TRUE, TRUE)
    /\ OcrInit
    /\ LoopsInit
    /\ \E enabled \in BOOLEAN : ClientInit(enabled)

\* process_ocr calls, one after the other
SpecClient == InitClient /\ [][NextClient]_vars

\* calculate_segment_size called on shapes and element kinds
SpecSize == InitAll /\ [][NextSize]_vars

\* the processor as constructed and after setup, its optimizer built
\* with its setting of adaptive sizing
InitProcessor ==
    /\ Init
    /\ http_fallback_enabled = TRUE
    /\ M4Init
    /\ MonitorInit(DefaultInitialSize, TRUE)
    /\ PredictorInit(DefaultPredictionThreshold)
    /\ ClientInit(TRUE)
    /\ SizeInit
    /\ OcrInit
    /\ LoopsInit
    /\ \E enabled \in BOOLEAN, optimizer \in BOOLEAN :
          /\ ProcessorInit(enabled, optimizer)
          /\ OptimizerInit(DefaultInitialSize, enabled)

\* one process_batch_async call
SpecProcessBatch == InitProcessor /\ [][NextProcessBatch]_vars

\* process_ocr calls on the processor, one after the other, as time passes
SpecOcr == InitAll /\ [][NextOcr]_vars

\* the background loops and their owners' shutdown
SpecLoops == InitAll /\ [][NextLoops]_vars

\* the same under fair scheduling: each task of the event loop that can
\* take a step does take it, and every sleep ends
FairLoops ==
    /\ SpecLoops
    /\ WF_vars(MonitorLoopStep)
    /\ \A l \in ProcessorLoops : WF_vars(ProcessorLoopStep(l))

\* any payload written to a new segment
SpecWrite == InitAll /\ [][NextWrite]_vars

\* the monitor constructed with a configured or the default throttle
\* threshold
InitAllocate ==
    /\ Init
    /\ http_fallback_enabled = TRUE
    /\ M4Init
    /\ OptimizerInit(DefaultInitialSize, TRUE)
    /\ PredictorInit(DefaultPredictionThreshold)
    /\ ClientInit(TRUE)
    /\ SizeInit
    /\ ProcessorInit(TRUE, TRUE)
    /\ OcrInit
    /\ LoopsInit
    /\ \E throttle_threshold \in ConfiguredThresholds :
          MonitorInitWith(throttle_threshold)

SpecAllocate == InitAllocate /\ [][NextAllocate]_vars

\* concurrent process_ocr calls on one client
SpecClientTasks == InitClient /\ [][NextClientTasks]_vars

\* threads writing and reading one segment of the M4 bridge
SpecM4Threads == InitAll /\ [][NextM4Threads]_vars
\* ------------------------------------------------------------------ claims
\* ids present in any of the bridge's maps
InRequestMap(r) == r \in DOMAIN active_requests
InSignalMaps(r) == r \in DOMAIN active_events \/ r \in event_locks
InSegmentMaps(r) ==
    r \in DOMAIN active_segments \/ r \in DOMAIN shared_memory_objects

\* task p allocated a segment in its current call and has not cleaned up
InFlight(p) == shm[p].name # NoHandle.name /\ pc[p] # "done"

\* task p's transfer is pending: written and signalled, result not yet read
Pending(p) == pc[p] \in {"wait", "read"}

\* C1: whenever process_image_zero_copy returns for request r, r is in none
\* of the active-request, active-signal and active-segment maps.
C1_CleanupUnconditional ==
    [][\A p \in Tasks :
          (pc[p] = "deallocate" /\ pc'[p] = "done") =>
              /\ ~InRequestMap(rid[p])'
              /\ ~InSignalMaps(rid[p])'
              /\ ~InSegmentMaps(rid[p])']_vars

\* C2: the number of active segments never exceeds max_segments.
C2_CapacityCap == Cardinality(DOMAIN active_segments) <= MaxSegments

\* C2 witness: the cap is reached and an allocation was refused for it
C2_Witness ==
    /\ Cardinality(DOMAIN active_segments) = MaxSegments
    /\ \E p \in Tasks : pc[p] = "except" /\ exc[p] = ErrExhausted
    /\ \E q \in Tasks : pc[q] = "wait"

\* no active segment is older than the staleness window at time t
NoneStale(segs, t) == \A k \in DOMAIN segs : t - segs[k].created_at <= StaleAfter

\* C3: allocate_segment called with max_segments segments active, none older
\* than 300 s, fails with the ResourceExhausted error and leaves the segment
\* maps (and the OS objects) unchanged.
C3_Exhaustion ==
    [][\A p \in Tasks :
          (/\ pc[p] = "allocate" /\ pc'[p] # "allocate"
           /\ Cardinality(DOMAIN active_segments) >= MaxSegments
           /\ NoneStale(active_segments, now)) =>
              /\ pc'[p] = "except" /\ exc'[p] = ErrExhausted
              /\ UNCHANGED segVars]_vars

\* C3 witness: an allocation was refused while a segment exactly 300 s old
\* (not yet stale) filled the capacity
C3_Witness ==
    /\ \E p \in Tasks : pc[p] = "except" /\ exc[p] = ErrExhausted
    /\ Cardinality(DOMAIN active_segments) >= MaxSegments
    /\ \E k \in DOMAIN active_segments :
          now - active_segments[k].created_at = StaleAfter

\* C4: allocate_segment called at capacity with at least one segment older
\* than 300 s removes every segment older than 300 s and none younger, and
\* the allocation then succeeds.
C4_OrphanReclaim ==
    [][\A p \in Tasks :
          (/\ pc[p] = "allocate" /\ pc'[p] # "allocate"
           /\ Cardinality(DOMAIN active_segments) >= MaxSegments
           /\ ~NoneStale(active_segments, now)) =>
              /\ \A k \in DOMAIN active_segments :
                    IF now - active_segments[k].created_at > StaleAfter
                    THEN active_segments[k].name \notin shm_os'
                    ELSE k = rid[p] \/ (k \in DOMAIN active_segments'
                                        /\ active_segments'[k] = active_segments[k])
              /\ pc'[p] = "write"
              /\ rid[p] \in DOMAIN active_segments'
              /\ active_segments'[rid[p]].created_at = now]_vars

\* C5: at most one transfer per request id is pending, and a pending
\* transfer's request record, signal and segment stay in place (they are
\* neither replaced nor torn down by another call).
C5_OnePendingPerId ==
    /\ \A p, q \in Tasks :
          (p # q /\ Pending(p) /\ Pending(q)) => rid[p] # rid[q]
    /\ \A p \in Tasks :
          Pending(p) =>
              /\ InRequestMap(rid[p])
              /\ active_requests[rid[p]].segment_name = shm[p].name
              /\ rid[p] \in DOMAIN active_events
              /\ rid[p] \in DOMAIN active_segments
              /\ active_segments[rid[p]].name = shm[p].name

\* C6: at most max_concurrent requests are between segment allocation and
\* cleanup at any time.
C6_BoundedConcurrency ==
    Cardinality({p \in Tasks : InFlight(p)}) <= MaxConcurrent

\* a result whose flags tell it from a result served by the fast path
MarksNotFastPath(res) ==
    <<res.ane_used, res.cache_hit, res.error>> #
        <<ShmResult(0).ane_used, ShmResult(0).cache_hit, ShmResult(0).error>>

\* C7: a call whose completion wait timed out returns a result that marks
\* that the fast path did not serve it and that carries a populated error or
\* the fallback transport's payload.
C7_FallbackDeterminism ==
    \A p \in Tasks :
        (pc[p] \in {"deallocate", "done"} /\ completed[p] = "False") =>
            /\ MarksNotFastPath(result[p])
            /\ result[p].error \notin {None, ""} \/ result[p].text = TextHttp

\* some step of task p's call is enabled
CanStep(p) ==
    \/ ENABLED Allocate(p) \/ ENABLED WriteAndSignal(p) \/ ENABLED Wait(p)
    \/ ENABLED Read(p) \/ ENABLED Except(p) \/ ENABLED Fallback(p)
    \/ ENABLED Deallocate(p)

\* C8: a call never stops short of returning and returns a well-formed
\* result, no exception escaping; after a failure (allocation, write or
\* wait) the result is the fallback transport's when fallback is enabled and
\* carries a non-empty error when it is disabled.
C8_FailSoft ==
    \A p \in Tasks :
        /\ pc[p] \notin {"idle", "done"} => CanStep(p)
        /\ pc[p] = "done" =>
              /\ exc[p] = None
              /\ result[p].request_id = rid[p]
              /\ result[p].text # None
              /\ completed[p] # "True" =>
                    IF http_fallback_enabled
                    THEN result[p] = HttpResult(rid[p])
                    ELSE /\ result[p].error \notin {None, ""}
                         /\ result[p].text = ""

\* C8 witness: with fallback disabled, calls returned error results for a
\* refused allocation and for a timed out wait
C8_Witness ==
    /\ ~http_fallback_enabled
    /\ \E p, q \in Tasks :
          /\ pc[p] = "done" /\ result[p].error = ErrExhausted
          /\ pc[q] = "done" /\ result[q].error = ErrTimeout

\* C9: whenever no request is in flight, every started request was counted
\* once as succeeded or failed and folded once into the smoothed latency.
C9_MetricsOncePerRequest ==
    (\A p \in Tasks : pc[p] \in {"idle", "done"}) =>
        /\ metrics.total_requests =
              metrics.successful_requests + metrics.failed_requests
        /\ metrics.latency_updates = metrics.total_requests

\* C10: a call writes only into a segment it allocated, starts the
\* completion wait only after it wrote the payload, recorded the request and
\* raised the ready signal, reads the result only after the wait returned
\* true, and returns the fast-path result only after that read.
C10_StepOrder ==
    [][\A p \in Tasks :
          /\ (pc'[p] = "write" /\ pc[p] # "write") =>
                /\ pc[p] = "allocate"
                /\ shm'[p].open
                /\ shm'[p].name \in shm_os'
                /\ active_segments'[rid[p]].name = shm'[p].name
          /\ (pc'[p] = "wait" /\ pc[p] # "wait") =>
                /\ pc[p] = "write"
                /\ shm[p].open
                /\ active_requests'[rid[p]].segment_name = shm[p].name
                /\ active_events'[rid[p]]
          /\ (pc'[p] = "read" /\ pc[p] # "read") =>
                /\ pc[p] = "wait"
                /\ rid[p] \in DOMAIN active_events /\ active_events[rid[p]]
          /\ (result'[p].text = TextShm /\ result[p].text # TextShm) =>
                /\ pc[p] = "read"
                /\ completed[p] = "True"]_vars

\* C10 witness: a call returned the fast-path result
C10_Witness ==
    \E p \in Tasks :
        pc[p] = "done" /\ completed[p] = "True" /\ result[p].text = TextShm


\* ------------------------------------------- claims C11 to C20

\* C11: wait_for_completion(request_id, timeout) never raises: it can be
\* called in every state, it answers False when the event of request_id is
\* still clear (the timeout ran out) and when request_id has no event, it
\* answers True only when the event of request_id is set, and it leaves
\* active_events and event_locks as they were.
C11_WaitContract ==
    /\ [](\A p \in Tasks, r \in Ids : ENABLED SyncWait(p, r))
    /\ [][\A p \in Tasks, r \in Ids :
            SyncWait(p, r) =>
               /\ completed'[p] \in {"True", "False"}
               /\ completed'[p] = "True" <=>
                     (r \in DOMAIN active_events /\ active_events[r])
               /\ active_events' = active_events
               /\ event_locks' = event_locks]_vars

\* the three answers: True on a set event, False on a clear one (one
\* caller), False on an id without event (the other)
C11_Witness ==
    \E p, q \in Tasks :
       /\ completed[p] = "True"
       /\ rid[p] \in DOMAIN active_events /\ active_events[rid[p]]
       /\ completed[q] = "False"
       /\ rid[q] \in Ids /\ rid[q] \notin DOMAIN active_events

\* C12: readiness and completion are distinct signals. No step of the
\* bridge signals completion (the backend's part is no code of the
\* repository), so a wait that ends never answers True and never goes on to
\* read the result: it answers False and the call takes the timeout path.
C12_ReadyIsNotCompletion ==
    [][\A p \in Tasks :
          (pc[p] = "wait" /\ pc'[p] # "wait") =>
             /\ completed'[p] = "False"
             /\ pc'[p] \in {"fallback", "except"}]_vars

\* C13: round-trip integrity: read_image_data(s) directly after a
\* successful write_image_data(s, B, M) returns exactly (B, M), and the
\* checksum of what it read is the checksum of B.
C13_RoundTrip ==
    [][(m4_call.op = "write" /\ m4_call.ok /\ m4_call'.op = "read") =>
          /\ m4_call'.ret =
                [none |-> FALSE, data |-> m4_call.data, meta |-> m4_call.meta]
          /\ Checksum(ByteCells(m4_call'.ret.data)) =
                Checksum(ByteCells(m4_call.data))]_vars

\* the header and the payload a segment holds, as a reader finds them
StoredHeader(seg) ==
    LET r1 == MmapRead(Seek0(seg), 1)
    IN JsonLoads(MmapRead(r1.seg, Unpack(r1.cells)).cells)
StoredPayload(seg) ==
    LET r1 == MmapRead(Seek0(seg), 1)
        r2 == MmapRead(r1.seg, Unpack(r1.cells))
    IN MmapRead(r2.seg, StoredHeader(seg).size).cells

BatchPlaces(batches) ==
    UNION {{<<b, k>> : k \in 1..Len(batches[b])} : b \in 1..Len(batches)}

\* C15: batch conservation: the batches optimize_batch returns partition
\* its input: every submitted request is at exactly one place of the
\* output, the batch lengths add up to the number of inputs, and a
\* non-empty input gives at least one batch.
C15_BatchConservation ==
    opt_call.op = "optimize" =>
       LET requests == opt_call.requests
           batches == opt_call.batches
       IN /\ \A i \in 1..Len(requests) :
                Cardinality({pl \in BatchPlaces(batches) :
                                batches[pl[1]][pl[2]] = requests[i]}) = 1
          /\ Cardinality(BatchPlaces(batches)) = Len(requests)
          /\ requests # <<>> => Len(batches) >= 1

\* high before normal before low
PriorityRank(priority) ==
    CASE priority = "high" -> 0
      [] priority = "normal" -> 1
      [] priority = "low" -> 2
      [] OTHER -> 3

\* optimize_batch has batched requests with the sizes {high: 2, normal: 2}
ScenarioBatched(requests) ==
    /\ opt_call.op = "optimize" /\ opt_call.requests = requests
    /\ current_config.high_priority_batch_size = 2
    /\ current_config.normal_priority_batch_size = 2

ChunkSize(c, priority) ==
    CASE priority = "high" -> c.high_priority_batch_size
      [] priority = "normal" -> c.normal_priority_batch_size
      [] OTHER -> LowPriorityBatchSize(c)

\* C17: chunk-size relation: in every reachable configuration
\* high_priority_batch_size <= normal_priority_batch_size <= the low-priority
\* chunk size, and every batch optimize_batch returns holds at most the
\* chunk size of its priority.
C17_ChunkSizeRelation ==
    /\ current_config.high_priority_batch_size <=
          current_config.normal_priority_batch_size
    /\ current_config.normal_priority_batch_size <=
          LowPriorityBatchSize(current_config)
    /\ opt_call.op = "optimize" =>
          \A b \in 1..Len(opt_call.batches) :
             Len(opt_call.batches[b]) <=
                ChunkSize(current_config, opt_call.batches[b][1].priority)

\* optimize_batch ran its tuning step in the call that just returned
TuningCall(call) ==
    call.op = "optimize" /\ call.requests # <<>> /\ adaptive_sizing

\* C18: batch monotonicity: of two successive tuning calls on the same
\* request set, the second with the lower system_load, the second does not
\* leave a smaller normal_priority_batch_size than the first.
C18_BatchMonotonicity ==
    [][(/\ TuningCall(opt_call) /\ TuningCall(opt_call')
        /\ opt_call'.requests = opt_call.requests
        /\ opt_call'.system_load < opt_call.system_load) =>
          current_config'.normal_priority_batch_size >=
             current_config.normal_priority_batch_size]_vars

\* C19: the size knobs stay within their bounds: high_priority_batch_size
\* in [1, 10], normal_priority_batch_size in [2, 20] and max_concurrent in
\* [4, 12] in every state; a tuning step with system_load < 30 lowers no
\* knob and one with system_load > 80 raises none.
C19_KnobsWithinBounds ==
    /\ [](/\ current_config.high_priority_batch_size \in HighMin..HighMax
          /\ current_config.normal_priority_batch_size \in NormalMin..NormalMax
          /\ current_config.max_concurrent \in ConcurrentMin..ConcurrentMax)
    /\ [][(TuningCall(opt_call') /\ opt_call' # opt_call) =>
             /\ opt_call'.system_load < LowLoad =>
                   /\ current_config'.high_priority_batch_size >=
                         current_config.high_priority_batch_size
                   /\ current_config'.normal_priority_batch_size >=
                         current_config.normal_priority_batch_size
                   /\ current_config'.max_concurrent >=
                         current_config.max_concurrent
             /\ opt_call'.system_load > HighLoad =>
                   /\ current_config'.high_priority_batch_size <=
                         current_config.high_priority_batch_size
                   /\ current_config'.normal_priority_batch_size <=
                         current_config.normal_priority_batch_size
                   /\ current_config'.max_concurrent <=
                         current_config.max_concurrent]_vars

\* C20: all adjustments are recorded: every step that changes a batch size,
\* a tuning step or adjust_for_utilization, appends one entry to
\* adaptation_history, and the entry holds the sizes the step leaves.
C20_AdjustmentsRecorded ==
    [][(\/ current_config'.high_priority_batch_size #
              current_config.high_priority_batch_size
        \/ current_config'.normal_priority_batch_size #
              current_config.normal_priority_batch_size) =>
          /\ Len(adaptation_history') = Len(adaptation_history) + 1
          /\ SubSeq(adaptation_history', 1, Len(adaptation_history)) =
                adaptation_history
          /\ adaptation_history'[Len(adaptation_history')]
                .high_priority_batch_size =
                current_config'.high_priority_batch_size
          /\ adaptation_history'[Len(adaptation_history')]
                .normal_priority_batch_size =
                current_config'.normal_priority_batch_size]_vars

\* ------------------------------------------- claims C21 to C30

\* C21: throttle decision: with adaptive throttling, should_throttle()
\* answers True exactly when the reading's usage is above the throttle
\* threshold (0.85), or its temperature is above 80, or its queue depth is
\* above 80% of the queue capacity; it is True for usage 0.90 with nominal
\* temperature and queue depth and False for usage 0.5, temperature 70 and
\* a queue depth of 10% of the capacity.
C21_ThrottleDecision ==
    (mon_call.op = "throttle" /\ adaptive_throttling) =>
       LET reading == mon_call.reading
           capacity == current_allocation.priority_queue_size
       IN /\ mon_call.throttle <=>
                \/ reading.ane_usage > current_allocation.throttle_threshold
                \/ reading.has_temperature /\ reading.ane_temperature > 80
                \/ 10 * reading.queue_depth > 8 * capacity
          /\ current_allocation.throttle_threshold = 85
          /\ (/\ reading.ane_usage = 90
              /\ reading.has_temperature => reading.ane_temperature <= 80
              /\ 10 * reading.queue_depth <= 8 * capacity) =>
                mon_call.throttle
          /\ (/\ reading.ane_usage = 50
              /\ reading.has_temperature /\ reading.ane_temperature = 70
              /\ 10 * reading.queue_depth = capacity) =>
                ~mon_call.throttle

\* usage 0.90 alone has made should_throttle answer True
C21_Witness ==
    /\ mon_call.op = "throttle" /\ adaptive_throttling
    /\ mon_call.reading.ane_usage = 90
    /\ mon_call.reading.has_temperature
    /\ mon_call.reading.ane_temperature = 70
    /\ 10 * mon_call.reading.queue_depth =
          current_allocation.priority_queue_size
    /\ mon_call.throttle

\* a recommendation of the type is among those returned
Recommends(type) == \E rec \in mon_call.recommendations : rec.type = type

\* C22: recommendation rule: over the recent readings, an average usage
\* below 0.3 gives a recommendation to raise the batch size to at most 20;
\* an average usage above 0.8 gives a recommendation to lower the batch size
\* (to no less than 1) and one to lower concurrency; an average efficiency
\* below 0.6 gives a recommendation to reduce the concurrent requests; a
\* raise and a lower of the batch size never come together; the confidence
\* is min(1, readings / window).
C22_RecommendationRule ==
    (mon_call.op = "recommend" /\ utilization_history # <<>>) =>
       LET recent == Recent(utilization_history)
           n == Len(recent)
       IN /\ SumOf(recent, "ane_usage") < 30 * n =>
                \E rec \in mon_call.recommendations :
                   rec.type = "increase_batch_size" /\ rec.recommended <= 20
          /\ SumOf(recent, "ane_usage") > 80 * n =>
                /\ \E rec \in mon_call.recommendations :
                      rec.type = "decrease_batch_size" /\ rec.recommended >= 1
                /\ Recommends("optimize_concurrent_requests")
          /\ SumOf(recent, "efficiency_score") < 60 * n =>
                Recommends("optimize_concurrent_requests")
          /\ ~(Recommends("increase_batch_size") /\
               Recommends("decrease_batch_size"))
          /\ mon_call.confidence = Min(100, (100 * n) \div RecentWindow)

\* the position of a key in the returned eviction order
EvictionPlaces(cache_key) ==
    {i \in 1..Len(pred_call.evictions) : pred_call.evictions[i] = cache_key}
\* the entry of the cache a returned key names
EntryOf(cache_key) ==
    CHOOSE e \in {pred_call.cache_contents[i] :
                     i \in 1..Len(pred_call.cache_contents)} :
        e.cache_key = cache_key
\* the age in hours counts as at least 0.1 hour (360 seconds)
AgeFloor(e) == IF e.age > 360 THEN e.age ELSE 360

\* C23: optimize_eviction returns every key of the cache exactly once, in
\* ascending order of access_count / max(age_hours, 0.1) (no returned key
\* has a score below that of a key returned before it), and of two entries
\* of equal age the one with the smaller access_count comes first.
C23_EvictionOrder ==
    pred_call.op = "evict" =>
       /\ Len(pred_call.evictions) = Len(pred_call.cache_contents)
       /\ \A i \in 1..Len(pred_call.cache_contents) :
             Cardinality(EvictionPlaces(pred_call.cache_contents[i].cache_key))
                = 1
       /\ \A i, j \in 1..Len(pred_call.evictions) :
             i < j =>
                LET a == EntryOf(pred_call.evictions[i])
                    b == EntryOf(pred_call.evictions[j])
                IN a.access_count * AgeFloor(b) <= b.access_count * AgeFloor(a)
       /\ \A i, j \in 1..Len(pred_call.cache_contents) :
             LET a == pred_call.cache_contents[i]
                 b == pred_call.cache_contents[j]
             IN a.age = b.age /\ a.access_count < b.access_count =>
                   \A m \in EvictionPlaces(a.cache_key),
                      n \in EvictionPlaces(b.cache_key) : m < n

\* C23 witness: three entries, the second and the third of equal age and
\* the third accessed less; the third is returned before the second, and
\* the old, never accessed first entry before both.
C23_Witness ==
    /\ pred_call.op = "evict"
    /\ pred_call.cache_contents =
          <<CacheEntry(1, 7200, 0), CacheEntry(2, 100, 5),
            CacheEntry(3, 100, 1)>>
    /\ pred_call.evictions = <<1, 3, 2>>

\* C24: whatever the prediction models return, predict_cache_access returns
\* only predictions whose probability is at least prediction_threshold, in
\* descending order of probability, and at most 10 of them; before
\* initialize() it returns the empty list.
C24_PredictionOutput ==
    pred_call.op = "predict" =>
       /\ ~is_initialized => pred_call.returned = <<>>
       /\ \A i \in 1..Len(pred_call.returned) :
             pred_call.returned[i].probability >= prediction_threshold
       /\ \A i, j \in 1..Len(pred_call.returned) :
             i < j => pred_call.returned[i].probability >=
                      pred_call.returned[j].probability
       /\ Len(pred_call.returned) <= 10

\* C24 witness: the models return eleven predictions above the threshold
\* to an initialized predictor, which returns ten of them.
C24_Witness ==
    /\ pred_call.op = "predict"
    /\ is_initialized
    /\ Len(pred_call.predictions) = 11
    /\ Len(pred_call.returned) = 10
    /\ pred_call.returned[1].probability > pred_call.returned[10].probability

\* the predictions the models returned for one key
Contributing(cache_key) ==
    {pred_call.predictions[i] : i \in
        {i \in 1..Len(pred_call.predictions) :
            pred_call.predictions[i].cache_key = cache_key}}

\* C25: for any predictions of the models, the combined result holds
\* exactly one prediction per predicted cache key, never two of the same
\* key, and the probability of each lies between the smallest and the
\* largest probability predicted for its key.
C25_OnePerKey ==
    pred_call.op = "predict" /\ is_initialized =>
       /\ \A i, j \in 1..Len(pred_call.combined) :
             pred_call.combined[i].cache_key = pred_call.combined[j].cache_key
                => i = j
       /\ \A i \in 1..Len(pred_call.predictions) :
             \E j \in 1..Len(pred_call.combined) :
                pred_call.combined[j].cache_key =
                   pred_call.predictions[i].cache_key
       /\ \A j \in 1..Len(pred_call.combined) :
             LET among == Contributing(pred_call.combined[j].cache_key)
             IN /\ \E p \in among :
                      p.probability <= pred_call.combined[j].probability
                /\ \E p \in among :
                      p.probability >= pred_call.combined[j].probability

\* how far the accuracy observed at a candidate threshold is from the
\* target, times 100 * the number of hits and misses logged
OffTarget(candidate, target) ==
    LET total == IF prediction_history.hit + prediction_history.miss = 0
                 THEN 1
                 ELSE prediction_history.hit + prediction_history.miss
        correct == IF candidate <= 80 THEN prediction_history.hit
                   ELSE prediction_history.miss
    IN IF 100 * correct >= target * total
       THEN 100 * correct - target * total
       ELSE target * total - 100 * correct
HitsAndMisses ==
    IF prediction_history.hit + prediction_history.miss = 0 THEN 1
    ELSE prediction_history.hit + prediction_history.miss
Candidates == {50, 60, 70, 80, 90, 95}
Closest(target) ==
    {c \in Candidates : \A d \in Candidates :
        OffTarget(c, target) <= OffTarget(d, target)}

\* C26: tune_prediction_threshold changes prediction_threshold only if at
\* least 50 operations are logged and the candidate whose observed accuracy
\* is closest to the target is no further than 0.1 from it, and then the
\* threshold becomes a closest candidate; with fewer than 50 operations
\* logged, or with the closest candidate further than 0.1 from the target,
\* the threshold is unchanged, and with 50 logged and the closest candidate
\* nearer than 0.1 the threshold after the call is a closest candidate.
C26_TuningRule ==
    [][pred_call'.op = "tune" =>
         LET target == pred_call'.target
             logged == prediction_history.hit + prediction_history.miss +
                       prediction_history.other
             nearest == CHOOSE c \in Closest(target) : TRUE
         IN /\ prediction_threshold' # prediction_threshold =>
                  /\ logged >= 50
                  /\ OffTarget(nearest, target) <= 10 * HitsAndMisses
                  /\ prediction_threshold' \in Closest(target)
            /\ logged < 50 \/ OffTarget(nearest, target) > 10 * HitsAndMisses
                  => prediction_threshold' = prediction_threshold
            /\ logged >= 50 /\ OffTarget(nearest, target) < 10 * HitsAndMisses
                  => prediction_threshold' \in Closest(target)
            /\ UNCHANGED <<prediction_history, is_initialized>>]_vars

\* C26 witness: with 50 operations logged a tuning call has replaced the
\* threshold the predictor was constructed with (0.8 or 0.9) by the
\* candidate 0.5.
C26_Witness ==
    /\ pred_call.op = "tune"
    /\ prediction_history.hit + prediction_history.miss +
       prediction_history.other >= 50
    /\ prediction_threshold = 50

\* C27: the OCRResponse of every process_ocr call names the transport that
\* produced it: 'shared_memory' only when the shared-memory attempt
\* succeeded, 'http_fallback' only when a shared-memory attempt failed and
\* the HTTP transport then succeeded, 'http' only when shared memory was
\* not attempted (disabled, force_http, image larger than the maximum
\* segment size, or the probe asked and answering unavailable) and the HTTP
\* transport succeeded, 'error' with an error text exactly when every
\* attempted transport failed; the HTTP transport is attempted at most once.
C27_ModeNamesTransport ==
    client_call.op = "process_ocr" =>
       /\ client_call.communication_mode \in
             {"shared_memory", "http_fallback", "http", "error"}
       /\ client_call.communication_mode = "shared_memory" =>
             /\ client_call.shm_attempts = 1 /\ client_call.shm_failed = 0
             /\ client_call.http_attempts = 0
       /\ client_call.communication_mode = "http_fallback" =>
             /\ client_call.shm_attempts = 1 /\ client_call.shm_failed = 1
             /\ client_call.http_attempts = 1 /\ client_call.http_failed = 0
       /\ client_call.communication_mode = "http" =>
             /\ client_call.shm_attempts = 0
             /\ client_call.http_attempts = 1 /\ client_call.http_failed = 0
             /\ \/ ~shared_memory_enabled
                \/ client_call.force_http
                \/ client_call.image.length > ClientMaxSegmentSize
                \/ client_call.probes = 1
       /\ client_call.communication_mode = "error" <=>
             /\ client_call.shm_attempts = client_call.shm_failed
             /\ client_call.http_attempts = client_call.http_failed
       /\ client_call.communication_mode = "error" =>
             client_call.error # "None"
       /\ client_call.http_attempts <= 1

\* C27 witness: the shared-memory attempt of a call failed and the HTTP
\* transport then answered; the response says 'http_fallback'.
C27_Witness ==
    /\ client_call.op = "process_ocr"
    /\ client_call.shm_failed = 1
    /\ client_call.http_attempts = 1
    /\ client_call.communication_mode = "http_fallback"

\* the bytes of the image of the last calculate_segment_size call: the
\* product of the dimensions times 4 for float32 and 1 otherwise
PayloadBytes ==
    Prod(size_call.image_shape) *
       (IF size_call.dtype = "float32" THEN 4 ELSE 1)

\* C28: calculate_segment_size returns the smallest multiple of 1 MiB that
\* is at least the payload bytes + 4096 + 1024, and the result is a
\* positive multiple of 1 MiB.
C28_SegmentSize ==
    size_call.op = "calculate_segment_size" =>
       /\ size_call.returned > 0
       /\ size_call.returned % 1048576 = 0
       /\ size_call.returned >= PayloadBytes + 4096 + 1024
       /\ size_call.returned - 1048576 < PayloadBytes + 4096 + 1024

\* C28 witness: a uint8 image of 1019 x 1024, whose payload, header and
\* padding are exactly 1 MiB, gets 1 MiB.
C28_Witness ==
    /\ size_call.op = "calculate_segment_size"
    /\ size_call.image_shape = <<1019, 1024>>
    /\ size_call.dtype = "uint8"
    /\ size_call.returned = 1048576

\* C29: deallocate_segment never raises: a task that reaches it always
\* completes it and returns with the exception it had; when the OS-level
\* object of the request is not destroyed, the segment stays in both maps
\* and get_metrics' memory_segments.active still counts it; when it is
\* destroyed, the request's entry is gone from both maps.
C29_DestroyFailureSurfaced ==
    /\ [](\A p \in Tasks : pc[p] = "deallocate" => ENABLED Deallocate(p))
    /\ [][\A p \in Tasks :
            pc[p] = "deallocate" /\ pc'[p] # "deallocate" =>
               /\ pc'[p] = "done"
               /\ exc'[p] = exc[p] /\ result'[p] = result[p]
               /\ rid[p] \in DOMAIN shared_memory_objects =>
                     IF shared_memory_objects[rid[p]].name \in shm_os'
                     THEN /\ rid[p] \in DOMAIN shared_memory_objects'
                          /\ rid[p] \in DOMAIN active_segments
                                => rid[p] \in DOMAIN active_segments'
                          /\ MemorySegmentsActive' = MemorySegmentsActive
                     ELSE /\ rid[p] \notin DOMAIN shared_memory_objects'
                          /\ rid[p] \notin DOMAIN active_segments'
       ]_vars

\* C29 witness: a task has returned from deallocate_segment while the
\* segment it allocated is still held by the OS, in both maps, and counted
\* as active.
C29_Witness ==
    \E p \in Tasks :
       /\ pc[p] = "done"
       /\ rid[p] \in DOMAIN shared_memory_objects
       /\ shared_memory_objects[rid[p]].owner = p
       /\ shared_memory_objects[rid[p]].name \in shm_os
       /\ rid[p] \in DOMAIN active_segments
       /\ MemorySegmentsActive >= 1

\* the results of the last process_batch_async call produced for a request
ResultsFor(tag) ==
    {i \in 1..Len(batch_call.results) : batch_call.results[i].item = tag}

\* C30: process_batch_async returns exactly one result per submitted
\* request; the result of a request whose processing failed carries an
\* error, and the other requests of the call keep their own results.
C30_OneResultPerRequest ==
    batch_call.op = "process_batch_async" =>
       /\ Len(batch_call.results) = Len(batch_call.requests)
       /\ \A i \in 1..Len(batch_call.requests) :
             /\ Cardinality(ResultsFor(batch_call.requests[i].tag)) = 1
             /\ \A k \in ResultsFor(batch_call.requests[i].tag) :
                   batch_call.results[k].error <=>
                      batch_call.requests[i].tag \in batch_call.failing

\* ------------------------------------------------------ claims C31 to C40

\* C31: once a result object has been returned by process_ocr, no later
\* call changes any of its fields; serving a later request from the cache
\* leaves the request_id and cache_hit of the object handed out earlier as
\* they were.
C31_ResultsImmutable ==
    [][\A o \in 1..Len(ocr_results) : ocr_results'[o] = ocr_results[o]]_vars

\* C32: under fair scheduling every background loop eventually stops once
\* its owner is shut down: the monitor's optimization loop after
\* ANEResourceMonitor.shutdown, the processor's three loops after
\* VisionProcessor.cleanup.
C32_LoopsStopAfterShutdown ==
    /\ "monitor" \in shut_down ~> monitor_loop = "stopped"
    /\ "processor" \in shut_down ~>
          \A l \in ProcessorLoops : processor_loops[l] = "stopped"

\* C39: the processor's metrics never count more cache hits than requests,
\* and the cache hit rate they report lies between 0 and 100.
C39_HitsWithinRequests ==
    /\ processor_metrics.cache_hits <= processor_metrics.total_requests
    /\ processor_metrics.cache_hit_rate \in 0..100

\* the chunks the last optimize_batch call cut its requests into
ChunksOfCall == CreatePrioritizedBatches(opt_call.requests, current_config)

\* the sub-batches of a chunk hold each of its requests exactly once
PartitionsChunk(subs, chunk) ==
    \A r \in 1..Len(chunk.requests) :
        Cardinality({<<s, i>> \in (1..Len(subs)) \X (1..MaxRequests + 1) :
                        /\ i <= Len(subs[s].requests)
                        /\ subs[s].requests[i] = chunk.requests[r]}) = 1

SubBatchLength(subs) ==
    LET RECURSIVE Sum(_)
        Sum(k) == IF k = 0 THEN 0 ELSE Len(subs[k].requests) + Sum(k - 1)
    IN Sum(Len(subs))

\* the recognition parameters of a request
RecognitionParameters(r) ==
    [recognition_level |-> r.recognition_level, languages |-> r.languages]

\* C33: a chunk of more than 2 requests is split into sub-batches that
\* partition it, and the requests of one sub-batch have equal recognition
\* parameters and one payload-size bucket; a chunk of at most 2 requests
\* comes back unchanged as a single batch.
C33_SimilarSubBatches ==
    opt_call.op = "optimize" =>
        \A c \in 1..Len(ChunksOfCall) :
            LET chunk == ChunksOfCall[c]
                subs == OptimizeSingleBatch(chunk)
            IN IF Len(chunk.requests) <= 2 THEN subs = <<chunk>>
               ELSE /\ PartitionsChunk(subs, chunk)
                    /\ SubBatchLength(subs) = Len(chunk.requests)
                    /\ \A s \in 1..Len(subs) :
                          \A i, j \in 1..Len(subs[s].requests) :
                             LET a == subs[s].requests[i]
                                 b == subs[s].requests[j]
                             IN /\ RecognitionParameters(a) =
                                      RecognitionParameters(b)
                                /\ ImageSizeCategory(a.image_kib) =
                                      ImageSizeCategory(b.image_kib)

\* C34: the payload is copied whole: the segment allocated for a payload
\* is large enough for all its bytes, and a request that was signalled has
\* every byte of its payload in the segment, never only a prefix.
C34_PayloadCopiedWhole ==
    write_call.op = "write" /\ write_call.signaled =>
        /\ write_call.segment_size - MetadataSize >= write_call.payload_len
        /\ write_call.raw_size = write_call.payload_len

\* a monitor sample's ane_usage is a percentage of capacity, kept in
\* hundredths of a percent: 50% is 5000, 80% is 8000

BatchSizesRaised ==
    \/ current_config'.high_priority_batch_size >
          current_config.high_priority_batch_size
    \/ current_config'.normal_priority_batch_size >
          current_config.normal_priority_batch_size

BatchSizesLowered ==
    \/ current_config'.high_priority_batch_size <
          current_config.high_priority_batch_size
    \/ current_config'.normal_priority_batch_size <
          current_config.normal_priority_batch_size

\* C35: adjust_for_utilization called with a sample of the resource monitor
\* raises a batch size only if the sampled usage is below 50% of capacity,
\* lowers one only if it is above 80% of capacity, and leaves both sizes as
\* they are for a usage from 50% to 80%.
C35_AdjustOnMonitorSamples ==
    [][opt_call'.op = "adjust" =>
          LET ane_usage == opt_call'.ane_usage
          IN /\ BatchSizesRaised => ane_usage < 5000
             /\ BatchSizesLowered => ane_usage > 8000
             /\ (ane_usage >= 5000 /\ ane_usage <= 8000)
                   => /\ current_config'.high_priority_batch_size =
                            current_config.high_priority_batch_size
                      /\ current_config'.normal_priority_batch_size =
                            current_config.normal_priority_batch_size]_vars

\* what the bridge holds for request id q: its request record, its signal
\* and lock, its segment, its handle and the OS objects named after it
HeldFor(q, requests, events, locks, segs, objs, os) ==
    [request |-> Restrict(requests, {q}), event |-> Restrict(events, {q}),
     lock |-> locks \cap {q}, segment |-> Restrict(segs, {q}),
     object |-> Restrict(objs, {q}), os |-> {n \in os : n[1] = q}]

\* task p takes a step of the cleanup of its request: the removal of the
\* record, signal and lock, or deallocate_segment
CleanupStep(p) ==
    \/ pc[p] \in {"read", "except", "fallback"} /\ pc'[p] = "deallocate"
    \/ pc[p] = "deallocate" /\ pc'[p] = "done"

\* C36: the cleanup of request r leaves what the bridge holds for every
\* other request id q as it was: q's request record, signal, lock and
\* segment, in every interleaving of the concurrent calls.
C36_CleanupIsolation ==
    [][\A p \in Tasks :
          CleanupStep(p) =>
             \A q \in Ids \ {rid[p]} :
                HeldFor(q, active_requests', active_events', event_locks',
                        active_segments', shared_memory_objects', shm_os') =
                HeldFor(q, active_requests, active_events, event_locks,
                        active_segments, shared_memory_objects, shm_os)]_vars

\* C36 witness: a task has cleaned up its request while another call, with
\* another id, waits with its record, signal, lock and segment in place.
C36_Witness ==
    \E p, w \in Tasks :
        /\ pc[p] = "done" /\ pc[w] = "wait" /\ rid[p] # rid[w]
        /\ rid[p] \notin DOMAIN active_requests
        /\ rid[w] \in DOMAIN active_requests
        /\ rid[w] \in DOMAIN active_events /\ rid[w] \in event_locks
        /\ rid[w] \in DOMAIN active_segments

\* C37: over optimize_allocation calls the throttle threshold never
\* increases; a call under high utilization whose usage did not go down
\* over the recent readings lowers it by 0.05, but not below 0.7; a call
\* under low or normal utilization leaves it as it is.
C37_ThresholdRatchet ==
    [][mon_call'.op = "optimize_allocation" =>
          LET before == current_allocation.throttle_threshold
              after == current_allocation'.throttle_threshold
              high == LoadPattern(utilization_history) = "high_utilization"
          IN /\ after <= before
             /\ high /\ UtilizationTrend(utilization_history) >= 0
                   => after = Max(70, before - 5)
             /\ ~high => after = before]_vars

\* no process_ocr call is in flight
ClientQuiescent ==
    \A p \in ClientTasks : client_tasks[p].pc \in {"idle", "done"}

\* C38: whenever no process_ocr call is in flight, total_requests is
\* successful_requests + failed_requests, every finished call has
\* incremented at most one of shared_memory_requests, http_requests and
\* fallback_requests, so that the three together do not exceed
\* total_requests, and no finished call's segment is in active_segments.
C38_ClientCounters ==
    ClientQuiescent =>
       /\ client_metrics.total_requests =
             client_metrics.successful_requests + client_metrics.failed_requests
       /\ \A p \in ClientTasks :
             client_tasks[p].pc = "done" =>
                /\ client_tasks[p].mode_counts <= 1
                /\ \A r \in DOMAIN client_segments : client_segments[r] # p
       /\ client_metrics.shared_memory_requests + client_metrics.http_requests
             + client_metrics.fallback_requests <= client_metrics.total_requests

\* C38 witness: two calls with the same request id have finished, one over
\* shared memory and one by the fallback, with a failure counted.
C38_Witness ==
    /\ ClientQuiescent
    /\ \A p \in ClientTasks : client_tasks[p].pc = "done"
    /\ client_tasks[1].request_id = client_tasks[2].request_id
    /\ client_metrics.shared_memory_requests = 1
    /\ client_metrics.fallback_requests = 1
    /\ client_metrics.failed_requests = 1
    /\ client_metrics.total_requests = 2

\* the metadata read_image_data returns for a write of (data, meta)
ReadBack(data, meta) == JsonLoads(JsonDumps(data, meta)).metadata

\* C40: with threads writing and reading one segment in any interleaving
\* of their map operations, writes that do not fit included, a read
\* returns either failure or a payload with the metadata that one
\* write_image_data call was given together with it.
C40_NoTornReads ==
    \A t \in M4Threads :
        (/\ m4_threads[t].op = "read" /\ m4_threads[t].pc = "done"
         /\ ~m4_threads[t].ret.none)
        => \E i \in 1..Len(m4_written) :
              /\ m4_threads[t].ret.data = m4_written[i].data
              /\ m4_threads[t].ret.meta =
                    ReadBack(m4_written[i].data, m4_written[i].meta)
====
